---- MODULE Spec2Model ----
(***************************************************************************)
(* Replay bridge of the dontbug reversible debugger: the breakpoint        *)
(* registry, the machine debugger's (gdb's) breakpoint table, the replay   *)
(* cursor over a recorded trace, and the DBGp request handlers that drive  *)
(* gdb with exec-continue in either direction.                             *)
(***************************************************************************)
EXTENDS Integers, Sequences, FiniteSets, TLC

VARIABLES trace, es, reverse, hist

vars == <<trace, es, reverse, hist>>

(***************************************************************************)
(* Bounds of the model                                                     *)
(***************************************************************************)
TraceLen == 3
MaxLine == 2
MaxStackDepth == 2
MaxBkptNo == 4
MaxSeq == 2
MaxRequests == 2
MaxReports == 6
MaxBodyLines == 3
MaxCount == 2
MaxDepthNo == 6
MaxContinues == 3
MaxStringLen == 4

(***************************************************************************)
(* Program constants                                                       *)
(***************************************************************************)
dontbugCstepLineNumTemp == 91
dontbugCstepLineNum == 99
dontbugMasterBp == 1

Min(S) == CHOOSE x \in S : \A y \in S : x <= y
Max(S) == CHOOSE x \in S : \A y \in S : x >= y

(***************************************************************************)
(* The recorded trace: one entry per executed script statement, as the     *)
(* statement handler of the extension sees it (filename, lineno, level).   *)
(***************************************************************************)
ScriptFiles == {"a.s"}
UnknownFile == "x.s"
Levels == 0..(MaxStackDepth - 1)
Statements == [file : ScriptFiles, line : 1..MaxLine, level : Levels]

\* A call enters the callee one level deeper; a return may leave several frames.
Traces ==
    {t \in [1..TraceLen -> Statements] :
        /\ t[1].level = 0
        /\ \A i \in 1..(TraceLen - 1) : t[i + 1].level <= t[i].level + 1}

(***************************************************************************)
(* The location index read from dontbug_break.c                            *)
(***************************************************************************)
sourceMap == [f \in ScriptFiles |-> 3]
levelAr == [k \in Levels |-> 5 + k]

(***************************************************************************)
(* Instrumentation sites.  Every statement runs dontbug_statement_handler, *)
(* which passes, in this order: line 91 (the bootstrap line), the level    *)
(* slots of dontbug_level_location, the file slot of                       *)
(* dontbug_break_location, and line 99 (the master breakpoint position).   *)
(***************************************************************************)
SitesPerStmt == MaxStackDepth + 3
SiteTemp == 0
SiteLevel(k) == k + 1
SiteBreak == MaxStackDepth + 1
SiteMaster == MaxStackDepth + 2

PosOf(i, site) == (i - 1) * SitesPerStmt + site
StmtOf(pos) == (pos \div SitesPerStmt) + 1
SiteOf(pos) == pos % SitesPerStmt
StartOfTrace == 0 - 1
EndOfTrace == TraceLen * SitesPerStmt
InTrace(pos) == pos > StartOfTrace /\ pos < EndOfTrace

\* dontbug_level_location: the slot of level k is passed by every statement
\* whose stack level is at most k.
LevelSlotPassed(level, k) == level <= k

\* dontbug_statement_handler: the sites a statement passes
SitePassed(stmt, site) ==
    \/ site = SiteTemp
    \/ site = SiteBreak
    \/ site = SiteMaster
    \/ /\ site >= SiteLevel(0)
       /\ site < SiteBreak
       /\ LevelSlotPassed(stmt.level, site - 1)

\* Whether the gdb breakpoint bp (source file, line, condition) triggers at a site
GdbBreakpointAt(bp, stmt, site) ==
    IF site = SiteTemp
    THEN bp.source = "dontbug.c" /\ bp.line = dontbugCstepLineNumTemp
    ELSE IF site = SiteMaster
    THEN bp.source = "dontbug.c" /\ bp.line = dontbugCstepLineNum
    ELSE IF site = SiteBreak
    THEN /\ bp.source = "dontbug_break.c"
         /\ bp.line = sourceMap[stmt.file]
         /\ (bp.cond = 0 \/ bp.cond = stmt.line)
    ELSE bp.source = "dontbug_break.c" /\ bp.line = levelAr[site - 1]

\* The enabled gdb breakpoints that trigger when the replay reaches pos
HitsAt(s, pos) ==
    {id \in DOMAIN s.gdb :
        /\ s.gdb[id].enabled
        /\ SitePassed(trace[StmtOf(pos)], SiteOf(pos))
        /\ GdbBreakpointAt(s.gdb[id], trace[StmtOf(pos)], SiteOf(pos))}

Restrict(f, S) == [x \in S |-> f[x]]

\* The *stopped record gdb emits when the replay stops.  bkptno = 0 stands for
\* a record without a breakpoint number.
StoppedAtBreakpoint(n) == [class |-> "stopped", reason |-> "breakpoint-hit", bkptno |-> n]
StoppedAtEnd == [class |-> "stopped", reason |-> "exited-normally", bkptno |-> 0]
StoppedAtStart == [class |-> "stopped", reason |-> "no-history", bkptno |-> 0]

breakpointStopGetId(notification) ==
    IF notification.class # "stopped"
    THEN [id |-> 0, ok |-> FALSE]
    ELSE IF notification.bkptno = 0
    THEN [id |-> 0, ok |-> FALSE]
    ELSE IF notification.reason # "breakpoint-hit"
    THEN [id |-> 0, ok |-> FALSE]
    ELSE [id |-> notification.bkptno, ok |-> TRUE]

\* The notification callback: a stop that names a breakpoint is offered on the
\* stop channel (0: nothing offered)
NotificationCallback(notification) ==
    LET r == breakpointStopGetId(notification)
    IN  IF r.ok THEN r.id ELSE 0

\* exec-continue [--reverse] inside gdb/rr: run to the nearest position in the
\* chosen direction where an enabled breakpoint triggers.  All temporary
\* breakpoints that trigger there are deleted by gdb; the *stopped record names
\* the lowest-numbered breakpoint that triggered.
GdbRun(s) ==
    LET rev == (s.cont = "rev")
        stops == IF rev
                 THEN {p \in 0..(s.pos - 1) : HitsAt(s, p) # {}}
                 ELSE {p \in (s.pos + 1)..(EndOfTrace - 1) : HitsAt(s, p) # {}}
    IN  IF stops = {}
        THEN [s EXCEPT !.pos = IF rev THEN StartOfTrace ELSE EndOfTrace,
                       !.cont = "none",
                       !.chan = NotificationCallback(
                                    IF rev THEN StoppedAtStart ELSE StoppedAtEnd)]
        ELSE LET p == IF rev THEN Max(stops) ELSE Min(stops)
                 hit == HitsAt(s, p)
                 gone == {id \in hit : s.gdb[id].temp}
             IN  [s EXCEPT !.pos = p,
                           !.cont = "none",
                           !.gdb = Restrict(s.gdb, DOMAIN s.gdb \ gone),
                           !.chan = NotificationCallback(StoppedAtBreakpoint(Min(hit)))]

(***************************************************************************)
(* The expression probe                                                    *)
(***************************************************************************)
\* data-evaluate-expression level: at line 91 the local is not assigned yet
\* and holds whatever the stack held (s.junk)
xSlashDgdbLevel(s) ==
    IF SiteOf(s.pos) = SiteTemp THEN s.junk ELSE trace[StmtOf(s.pos)].level

\* The result class of a data-evaluate-expression: "done", or "error" when gdb
\* fails the command (s.fails); xSlashDgdb and xSlashSgdb panic unless "done"
xGdbCmdValue(s) == IF s.fails THEN "error" ELSE "done"
xSlashDgdbLineno(s) == trace[StmtOf(s.pos)].line
xSlashSgdbFilename(s) == trace[StmtOf(s.pos)].file

(***************************************************************************)
(* The breakpoint registry (es.breakpoints) and gdb's breakpoint table     *)
(***************************************************************************)
GdbSetEnabled(g, ids, val) ==
    [id \in DOMAIN g |-> IF id \in ids THEN [g[id] EXCEPT !.enabled = val] ELSE g[id]]
RegSetState(b, ids, val) ==
    [id \in DOMAIN b |-> IF id \in ids THEN [b[id] EXCEPT !.state = val] ELSE b[id]]

getEnabledPhpBreakpoints(s) ==
    {id \in DOMAIN s.breakpoints :
        s.breakpoints[id].state = "enabled" /\ s.breakpoints[id].bpType # "internal"}

isEnabledPhpBreakpoint(s, id) ==
    /\ id \in DOMAIN s.breakpoints
    /\ s.breakpoints[id].state = "enabled"
    /\ s.breakpoints[id].bpType # "internal"

isEnabledPhpTemporaryBreakpoint(s, id) ==
    /\ id \in DOMAIN s.breakpoints
    /\ s.breakpoints[id].state = "enabled"
    /\ s.breakpoints[id].bpType # "internal"
    /\ s.breakpoints[id].temporary

\* Variant: break-disable is sent but the registry keeps the old state
disableGdbBreakpoints_Mutant(s, bpList) ==
    IF bpList = {} THEN s
    ELSE [s EXCEPT !.gdb = GdbSetEnabled(s.gdb, bpList, FALSE)]

disableGdbBreakpoints(s, bpList) ==
    IF bpList = {} THEN s
    ELSE [s EXCEPT !.gdb = GdbSetEnabled(s.gdb, bpList, FALSE),
                   !.breakpoints = RegSetState(s.breakpoints, bpList, "disabled")]

disableGdbBreakpoint(s, bp) == disableGdbBreakpoints(s, {bp})

disableAllGdbBreakpoints(s) ==
    [s EXCEPT !.gdb = GdbSetEnabled(s.gdb, DOMAIN s.gdb, FALSE),
              !.breakpoints = RegSetState(s.breakpoints, DOMAIN s.breakpoints, "disabled")]

enableAllGdbBreakpoints(s) ==
    [s EXCEPT !.gdb = GdbSetEnabled(s.gdb, DOMAIN s.gdb, TRUE),
              !.breakpoints = RegSetState(s.breakpoints, DOMAIN s.breakpoints, "enabled")]

enableGdbBreakpoints(s, bpList) ==
    IF bpList = {} THEN s
    ELSE [s EXCEPT !.gdb = GdbSetEnabled(s.gdb, bpList, TRUE),
                   !.breakpoints = RegSetState(s.breakpoints, bpList, "enabled")]

enableGdbBreakpoint(s, bp) == enableGdbBreakpoints(s, {bp})

Extend(f, x, v) == [y \in DOMAIN f \cup {x} |-> IF y = x THEN v ELSE f[y]]

\* break-insert: gdb numbers the new breakpoint with its next free number
GdbBreakInsert(s, bp) ==
    [s EXCEPT !.gdb = Extend(s.gdb, s.nextNo, bp), !.nextNo = s.nextNo + 1]

\* Variant: the registry entry does not take the temporary flag
setPhpBreakpointInGdb_Mutant(s, phpFilename, phpLineno, disabled, temporary) ==
    LET id == s.nextNo
        g == GdbBreakInsert(s, [source |-> "dontbug_break.c",
                                line |-> sourceMap[phpFilename],
                                cond |-> phpLineno,
                                enabled |-> ~disabled,
                                temp |-> temporary])
    IN  [g EXCEPT !.breakpoints =
            Extend(g.breakpoints, id,
                   [filename |-> phpFilename,
                    lineno |-> phpLineno,
                    state |-> IF disabled THEN "disabled" ELSE "enabled",
                    temporary |-> FALSE,
                    bpType |-> "line"])]

\* Precondition (checked by the caller): phpFilename \in DOMAIN sourceMap.
\* The id returned is the value of s.nextNo before the call.
setPhpBreakpointInGdb(s, phpFilename, phpLineno, disabled, temporary) ==
    LET id == s.nextNo
        g == GdbBreakInsert(s, [source |-> "dontbug_break.c",
                                line |-> sourceMap[phpFilename],
                                cond |-> phpLineno,
                                enabled |-> ~disabled,
                                temp |-> temporary])
    IN  [g EXCEPT !.breakpoints =
            Extend(g.breakpoints, id,
                   [filename |-> phpFilename,
                    lineno |-> phpLineno,
                    state |-> IF disabled THEN "disabled" ELSE "enabled",
                    temporary |-> temporary,
                    bpType |-> "line"])]

\* Variant: the depth trap is inserted disabled
setPhpStackLevelBreakpointInGdb_Mutant(s, level) ==
    GdbBreakInsert(s, [source |-> "dontbug_break.c",
                       line |-> levelAr[level],
                       cond |-> 0,
                       enabled |-> FALSE,
                       temp |-> FALSE])

\* Makes no entry in the registry.  The id returned is s.nextNo before the call.
setPhpStackLevelBreakpointInGdb(s, level) ==
    GdbBreakInsert(s, [source |-> "dontbug_break.c",
                       line |-> levelAr[level],
                       cond |-> 0,
                       enabled |-> TRUE,
                       temp |-> FALSE])

\* Variant: only the registry entry is deleted, gdb keeps the breakpoint
removeGdbBreakpoint_Mutant(s, id) ==
    [s EXCEPT !.breakpoints = Restrict(s.breakpoints, DOMAIN s.breakpoints \ {id})]

removeGdbBreakpoint(s, id) ==
    [s EXCEPT !.gdb = Restrict(s.gdb, DOMAIN s.gdb \ {id}),
              !.breakpoints = Restrict(s.breakpoints, DOMAIN s.breakpoints \ {id})]

(***************************************************************************)
(* continueExecution, in three parts: the exec-continue is sent, gdb runs  *)
(* (GdbRun), and the id of the stop is received from the stop channel.     *)
(***************************************************************************)
\* Variant: the shared flag is read when the continue is sent
ContinueDirection_Mutant(s, rev) == reverse

\* The direction of a continue is the value the handler was handed
ContinueDirection(s, rev) == rev

continueExecutionSend(s, rev, next) ==
    [s EXCEPT !.status = "running",
              !.cont = IF ContinueDirection(s, rev) THEN "rev" ELSE "fwd",
              !.wait = TRUE,
              !.pc = next]

\* breakId := <-es.breakStopNotify, and the classification of the stop
continueExecutionRecv(s) ==
    LET breakId == s.chan
        t == [s EXCEPT !.status = "break", !.chan = 0, !.wait = FALSE]
    IN  IF isEnabledPhpTemporaryBreakpoint(t, breakId)
        THEN [t EXCEPT !.breakpoints =
                           Restrict(t.breakpoints, DOMAIN t.breakpoints \ {breakId}),
                       !.ok = TRUE]
        ELSE IF isEnabledPhpBreakpoint(t, breakId)
        THEN [t EXCEPT !.ok = TRUE]
        ELSE [t EXCEPT !.ok = FALSE]

\* gotoMasterBpLocation, before and after its continueExecution
gotoMasterBpLocationSend(s, rev, next) ==
    continueExecutionSend(enableGdbBreakpoint(s, dontbugMasterBp), rev, next)
gotoMasterBpLocationDone(s) == disableGdbBreakpoint(s, dontbugMasterBp)

(***************************************************************************)
(* The DBGp handlers.  A handler runs on the DBGp task from label to label *)
(* (s.pc); it gives up control only where continueExecution waits for the  *)
(* stop notification.  Locals that live across a wait are fields of s.     *)
(***************************************************************************)
StepCommands == {"step_into", "step_over", "step_out", "run"}

\* The break response with the current filename and lineno
\* An index outside levelAr, or panicWith: the request is abandoned
Panic(s) == [s EXCEPT !.pc = "panicked"]

Respond(s) ==
    IF xGdbCmdValue(s) # "done"
    THEN Panic(s)
    ELSE [s EXCEPT !.pc = "respond",
                   !.status = "break",
                   !.filename = xSlashSgdbFilename(s),
                   !.lineno = xSlashDgdbLineno(s)]

handleStepInto(s) ==
    IF s.pc = "step_into"
    THEN gotoMasterBpLocationSend(s, s.rev, "step_into_1")
    ELSE Respond(gotoMasterBpLocationDone(s))

handleStepOverOrOut(s) ==
    LET stepOut == (s.command = "step_out")
    IN
    IF s.pc \in {"step_over", "step_out"} /\ xGdbCmdValue(s) # "done"
    THEN Panic(s)
    ELSE IF s.pc \in {"step_over", "step_out"}
    THEN LET currentPhpStackLevel == xSlashDgdbLevel(s)
             levelLimit == IF stepOut /\ currentPhpStackLevel > 0
                           THEN currentPhpStackLevel - 1
                           ELSE currentPhpStackLevel
         IN  IF levelLimit \notin DOMAIN levelAr
             THEN Panic(s)
             ELSE continueExecutionSend(
                      [setPhpStackLevelBreakpointInGdb(s, levelLimit)
                          EXCEPT !.id = s.nextNo],
                      s.rev, "step_1")
    ELSE IF s.pc = "step_1"
    THEN IF ~s.rev
         THEN gotoMasterBpLocationSend(removeGdbBreakpoint(s, s.id), FALSE, "step_4")
         ELSE IF s.ok /\ xGdbCmdValue(s) # "done"
         THEN Panic(removeGdbBreakpoint(s, s.id))
         ELSE IF s.ok
         THEN \* a user (php) breakpoint was hit
              LET s1 == removeGdbBreakpoint(s, s.id)
                  levelLimit == xSlashDgdbLevel(s1)
                  bpList == getEnabledPhpBreakpoints(s1)
                  s2 == disableGdbBreakpoints(s1, bpList)
                  s3 == [setPhpStackLevelBreakpointInGdb(s2, levelLimit)
                            EXCEPT !.id2 = s2.nextNo, !.bpList = bpList]
              IN  continueExecutionSend(s3, TRUE, "step_2")
         ELSE LET bpList == getEnabledPhpBreakpoints(s)
                  s1 == [disableGdbBreakpoints(s, bpList) EXCEPT !.bpList = bpList]
              IN  continueExecutionSend(s1, TRUE, "step_3")
    ELSE IF s.pc = "step_2"
    THEN LET s1 == removeGdbBreakpoint(s, s.id2)
             s2 == enableGdbBreakpoints(s1, s.bpList)
         IN  gotoMasterBpLocationSend(s2, FALSE, "step_4")
    ELSE IF s.pc = "step_3"
    THEN LET s1 == enableGdbBreakpoints(s, s.bpList)
             s2 == removeGdbBreakpoint(s1, s.id)
         IN  gotoMasterBpLocationSend(s2, FALSE, "step_4")
    ELSE Respond(gotoMasterBpLocationDone(s))

handleRun(s) ==
    IF s.pc = "run"
    THEN IF s.rev
         THEN LET bpList == getEnabledPhpBreakpoints(s)
                  s1 == [disableGdbBreakpoints(s, bpList) EXCEPT !.bpList = bpList]
              IN  gotoMasterBpLocationSend(s1, TRUE, "run_1")
         ELSE continueExecutionSend(s, s.rev, "run_2")
    ELSE IF s.pc = "run_1"
    THEN LET s1 == gotoMasterBpLocationDone(s)
             s2 == enableGdbBreakpoints(s1, s.bpList)
         IN  continueExecutionSend(s2, s.rev, "run_2")
    ELSE IF s.pc = "run_2"
    THEN IF s.ok
         THEN LET bpList == getEnabledPhpBreakpoints(s)
                  s1 == [disableGdbBreakpoints(s, bpList) EXCEPT !.bpList = bpList]
              IN  IF ~s.rev
                  THEN gotoMasterBpLocationSend(s1, FALSE, "run_4")
                  ELSE IF xGdbCmdValue(s) # "done"
                  THEN Panic(s1)
                  ELSE LET currentPhpStackLevel == xSlashDgdbLevel(s1)
                           s2 == [setPhpStackLevelBreakpointInGdb(s1, currentPhpStackLevel)
                                     EXCEPT !.id = s1.nextNo]
                       IN  continueExecutionSend(s2, TRUE, "run_3")
         ELSE Panic(s)   \* "Unimplemented program end handling"
    ELSE IF s.pc = "run_3"
    THEN gotoMasterBpLocationSend(removeGdbBreakpoint(s, s.id), FALSE, "run_4")
    ELSE LET s1 == gotoMasterBpLocationDone(s)
             s2 == Respond(s1)
         IN  IF s2.pc = "panicked" THEN s2 ELSE enableGdbBreakpoints(s2, s.bpList)

\* One run of the handler of the request being served, up to its next wait
HandlerStep(s) ==
    IF s.command = "step_into" THEN handleStepInto(s)
    ELSE IF s.command \in {"step_over", "step_out"} THEN handleStepOverOrOut(s)
    ELSE handleRun(s)

\* dispatchIdeRequest: the handler starts with the direction it was handed
dispatchIdeRequest(s, command, rev, junk) ==
    [s EXCEPT !.command = command, !.pc = command, !.rev = rev, !.junk = junk]

\* The DBGp task is blocked in continueExecution and no stop id will come
Blocked(s) == s.wait /\ s.cont = "none" /\ s.chan = 0

\* A request served to its end: to its response, its panic, or the wait that
\* never ends
RECURSIVE Serve(_)
Serve(s) ==
    IF s.pc \in {"respond", "panicked"} THEN s
    ELSE IF s.wait
    THEN LET g == GdbRun(s)
         IN  IF g.chan = 0 THEN g ELSE Serve(continueExecutionRecv(g))
    ELSE Serve(HandlerStep(s))

(***************************************************************************)
(* Breakpoint requests of the IDE                                          *)
(***************************************************************************)
\* Variant: the insertion is sent to gdb although the file is not in the index
handleBreakpointSetLineBreakpoint_Mutant(s, phpFilename, phpLineno, disabled, temporary) ==
    IF phpFilename \notin DOMAIN sourceMap
    THEN [s EXCEPT !.nextNo = s.nextNo + 1]
    ELSE setPhpBreakpointInGdb(s, phpFilename, phpLineno, disabled, temporary)

handleBreakpointSetLineBreakpoint(s, phpFilename, phpLineno, disabled, temporary) ==
    IF phpFilename \notin DOMAIN sourceMap
    THEN s    \* error 200, nothing is set
    ELSE setPhpBreakpointInGdb(s, phpFilename, phpLineno, disabled, temporary)

handleBreakpointRemove(s, d) ==
    removeGdbBreakpoint(s, d)

handleBreakpointUpdate(s, d, state) ==
    IF state = "disabled" THEN disableGdbBreakpoint(s, d) ELSE enableGdbBreakpoint(s, d)

\* The user breakpoints (those with a lineno condition) gdb has enabled
GdbUserBreakpointsEnabled(s) ==
    {id \in DOMAIN s.gdb : s.gdb[id].enabled /\ s.gdb[id].cond # 0}

\* dontbug_xdebug_cmd is evaluated inside gdb: the diversion session leaves the
\* replay where it was.  s.divBps notes the user breakpoints gdb has enabled
\* while the helper runs; a failed evaluation panics.
diversionSessionCmd(s) ==
    LET t == [s EXCEPT !.divBps = GdbUserBreakpointsEnabled(s)]
    IN  IF xGdbCmdValue(t) # "done" THEN Panic(t) ELSE t

handleInDiversionSessionStandard(s) == diversionSessionCmd(s)

\* A diversion command served with every gdb breakpoint disabled
handleInDiversionSessionWithNoGdbBpts(s) ==
    LET bpList == getEnabledPhpBreakpoints(s)
        s1 == disableAllGdbBreakpoints(s)
        s2 == diversionSessionCmd(s1)
    IN  IF s2.pc = "panicked" THEN s2 ELSE enableGdbBreakpoints(s2, bpList)

(***************************************************************************)
(* The feature map.  Values are the strings sent over the wire.            *)
(***************************************************************************)
initFeatureMap ==
    [language_supports_threads  |-> [kind |-> "bool", value |-> "0", readOnly |-> TRUE],
     language_name              |-> [kind |-> "string", value |-> "PHP", readOnly |-> TRUE],
     language_version           |-> [kind |-> "string", value |-> "7.0", readOnly |-> TRUE],
     encoding                   |-> [kind |-> "string", value |-> "ISO-8859-1", readOnly |-> TRUE],
     protocol_version           |-> [kind |-> "int", value |-> "1", readOnly |-> TRUE],
     supports_async             |-> [kind |-> "bool", value |-> "0", readOnly |-> TRUE],
     supports_reverse_debugging |-> [kind |-> "bool", value |-> "1", readOnly |-> TRUE],
     breakpoint_types           |-> [kind |-> "string", value |-> "line", readOnly |-> TRUE],
     multiple_sessions          |-> [kind |-> "bool", value |-> "0", readOnly |-> FALSE],
     max_children               |-> [kind |-> "int", value |-> "64", readOnly |-> FALSE],
     max_data                   |-> [kind |-> "int", value |-> "2048", readOnly |-> FALSE],
     max_depth                  |-> [kind |-> "int", value |-> "1", readOnly |-> FALSE],
     extended_properties        |-> [kind |-> "bool", value |-> "0", readOnly |-> FALSE],
     show_hidden                |-> [kind |-> "bool", value |-> "0", readOnly |-> FALSE]]

\* strconv.Atoi succeeds on the decimal numerals (those the requests carry),
\* with a sign or leading zeros too; strconv.Itoa writes the shortest numeral
Numerals == {"0", "1", "2", "64", "2048", "01", "+1"}
Atoi(v) ==
    CASE v = "0" -> 0
      [] v \in {"1", "01", "+1"} -> 1
      [] v = "2" -> 2
      [] v = "64" -> 64
      [] v = "2048" -> 2048
Itoa(n) ==
    CASE n = 0 -> "0"
      [] n = 1 -> "1"
      [] n = 2 -> "2"
      [] n = 64 -> "64"
      [] n = 2048 -> "2048"

\* set of engineFeatureBool, engineFeatureInt and engineFeatureString:
\* ok = FALSE stands for the panic
FeatureSetValue(feature, value) ==
    IF feature.readOnly
    THEN [ok |-> FALSE, feature |-> feature]
    ELSE IF feature.kind = "bool" /\ value \notin {"0", "1"}
    THEN [ok |-> FALSE, feature |-> feature]
    ELSE IF feature.kind = "int" /\ value \notin Numerals
    THEN [ok |-> FALSE, feature |-> feature]
    ELSE IF feature.kind = "int"
    THEN [ok |-> TRUE, feature |-> [feature EXCEPT !.value = Itoa(Atoi(value))]]
    ELSE [ok |-> TRUE, feature |-> [feature EXCEPT !.value = value]]

(***************************************************************************)
(* The engine after startGdbAndInitDebugEngineState: the master breakpoint *)
(* is number 1 and disabled, the bootstrap temporary breakpoint (number 2) *)
(* has been hit and deleted, and the cursor rests on line 91 of the first  *)
(* statement.                                                              *)
(***************************************************************************)
InitEngine ==
    [gdb |-> (dontbugMasterBp :> [source |-> "dontbug.c",
                                  line |-> dontbugCstepLineNum,
                                  cond |-> 0,
                                  enabled |-> FALSE,
                                  temp |-> FALSE]),
     nextNo |-> dontbugMasterBp + 2,
     pos |-> PosOf(1, SiteTemp),
     breakpoints |-> (dontbugMasterBp :> [filename |-> "dontbug.c",
                                          lineno |-> dontbugCstepLineNum,
                                          state |-> "disabled",
                                          temporary |-> FALSE,
                                          bpType |-> "internal"]),
     status |-> "starting",
     cont |-> "none",
     chan |-> 0,
     wait |-> FALSE,
     pc |-> "idle",
     command |-> "none",
     rev |-> FALSE,
     junk |-> 0,
     id |-> 0,
     id2 |-> 0,
     bpList |-> {},
     ok |-> FALSE,
     prompt |-> "none",
     filename |-> "",
     lineno |-> 0,
     fails |-> FALSE,
     divBps |-> {},
     lastSequenceNum |-> 0,
     featureMap |-> initFeatureMap]

(***************************************************************************)
(* History (ghost state): the step or run request being served or served   *)
(* last, with its direction, the cursor before and after it, its outcome   *)
(* and the user breakpoints that were enabled when it was dispatched.  Any *)
(* other request clears it.                                                *)
(***************************************************************************)
Armed(s) ==
    {<<s.breakpoints[id].filename, s.breakpoints[id].lineno>> :
        id \in getEnabledPhpBreakpoints(s)}

NoRequest ==
    [command |-> "none", rev |-> FALSE, from |-> StartOfTrace, to |-> StartOfTrace,
     outcome |-> "none", armed |-> {}]

Outcome(s) ==
    IF s.pc = "respond" THEN "break"
    ELSE IF s.pc = "panicked" THEN "panic"
    ELSE "pending"

Begun(s) ==
    [command |-> s.command, rev |-> s.rev, from |-> s.pos, to |-> s.pos,
     outcome |-> "pending", armed |-> Armed(s)]

Ended(h, s) == [h EXCEPT !.to = s.pos, !.outcome = Outcome(s)]

\* The response is written and the DBGp task reads the next request; after a
\* recovered panic the connection is closed instead
Finish(s) ==
    IF s.pc = "respond"
    THEN [s EXCEPT !.pc = "idle", !.command = "none", !.junk = 0, !.id = 0,
                   !.id2 = 0, !.bpList = {}, !.ok = FALSE, !.fails = FALSE,
                   !.divBps = {}]
    ELSE IF s.pc = "panicked"
    THEN [s EXCEPT !.pc = "closed"]
    ELSE s

\* What line 91 may find in the not yet assigned local: a level of the index,
\* or a number outside it
JunkLevels(s) == IF SiteOf(s.pos) = SiteTemp THEN 0..MaxStackDepth ELSE {0}

(***************************************************************************)
(* Specification Spec: every request is served to its end in one step.     *)
(***************************************************************************)
Init ==
    /\ trace \in Traces
    /\ es = InitEngine
    /\ reverse = FALSE
    /\ hist = NoRequest

StepRequest(command) ==
    /\ es.pc = "idle"
    /\ \E junk \in JunkLevels(es) :
          LET s0 == dispatchIdeRequest(es, command, reverse, junk)
              s1 == Serve(s0)
          IN  /\ s1.nextNo <= MaxBkptNo + 1
              /\ es' = Finish(s1)
              /\ hist' = Ended(Begun(s0), s1)
    /\ UNCHANGED <<trace, reverse>>

StepInto == StepRequest("step_into")
StepOver == StepRequest("step_over")
StepOut == StepRequest("step_out")
Run == StepRequest("run")

BreakpointSet ==
    /\ es.pc = "idle"
    /\ es.nextNo <= MaxBkptNo
    /\ \E f \in ScriptFiles \cup {UnknownFile}, n \in 1..MaxLine, d \in BOOLEAN, r \in BOOLEAN :
          es' = handleBreakpointSetLineBreakpoint(es, f, n, d, r)
    /\ hist' = NoRequest
    /\ UNCHANGED <<trace, reverse>>

\* The IDE names breakpoints by the ids it was given
IdeBreakpointIds(s) == {id \in DOMAIN s.breakpoints : s.breakpoints[id].bpType # "internal"}

BreakpointRemove ==
    /\ es.pc = "idle"
    /\ \E d \in IdeBreakpointIds(es) : es' = handleBreakpointRemove(es, d)
    /\ hist' = NoRequest
    /\ UNCHANGED <<trace, reverse>>

BreakpointUpdate ==
    /\ es.pc = "idle"
    /\ \E d \in IdeBreakpointIds(es), state \in {"enabled", "disabled"} :
          es' = handleBreakpointUpdate(es, d, state)
    /\ hist' = NoRequest
    /\ UNCHANGED <<trace, reverse>>

Diversion ==
    /\ es.pc = "idle"
    /\ es' = handleInDiversionSessionWithNoGdbBpts(es)
    /\ hist' = NoRequest
    /\ UNCHANGED <<trace, reverse>>

\* The prompt commands t, r and f
PromptDirection ==
    /\ \E c \in {"t", "r", "f"} :
          reverse' = IF c = "t" THEN ~reverse ELSE (c = "r")
    /\ UNCHANGED <<trace, es, hist>>

Next ==
    \/ StepInto
    \/ StepOver
    \/ StepOut
    \/ Run
    \/ BreakpointSet
    \/ BreakpointRemove
    \/ BreakpointUpdate
    \/ Diversion
    \/ PromptDirection

Spec == Init /\ [][Next]_vars

(***************************************************************************)
(* Specification SpecBp: the enable/disable operations on the registry and *)
(* gdb's breakpoint table, in any order, with no replay in between.        *)
(***************************************************************************)
BreakpointOp(command) == [NoRequest EXCEPT !.command = command]

DisableAll ==
    /\ es' = disableAllGdbBreakpoints(es)
    /\ hist' = BreakpointOp("disable_all")
    /\ UNCHANGED <<trace, reverse>>

EnableAll ==
    /\ es' = enableAllGdbBreakpoints(es)
    /\ hist' = BreakpointOp("enable_all")
    /\ UNCHANGED <<trace, reverse>>

DisableList ==
    /\ \E bpList \in SUBSET (1..MaxBkptNo) : es' = disableGdbBreakpoints(es, bpList)
    /\ hist' = BreakpointOp("disable_list")
    /\ UNCHANGED <<trace, reverse>>

EnableList ==
    /\ \E bpList \in SUBSET (1..MaxBkptNo) : es' = enableGdbBreakpoints(es, bpList)
    /\ hist' = BreakpointOp("enable_list")
    /\ UNCHANGED <<trace, reverse>>

NextBp ==
    \/ BreakpointSet
    \/ BreakpointUpdate
    \/ DisableAll
    \/ EnableAll
    \/ DisableList
    \/ EnableList

\* No replay happens here, so one trace stands for all
InitBp ==
    /\ trace = [i \in 1..TraceLen |-> [file |-> "a.s", line |-> 1, level |-> 0]]
    /\ es = InitEngine
    /\ reverse = FALSE
    /\ hist = NoRequest

SpecBp == InitBp /\ [][NextBp]_vars

(***************************************************************************)
(* Specification SpecConc: the DBGp task and the prompt task step by step. *)
(* The DBGp task reads a request, copies the direction flag under the      *)
(* mutex, dispatches, runs the handler from wait to wait and writes the    *)
(* response; gdb runs the replay on its own; the prompt task serves what   *)
(* is typed whenever it is typed.                                          *)
(***************************************************************************)
\* Breakpoint ids a request may still need (two depth traps at most)
IdsNeeded(command) ==
    IF command = "step_into" THEN 0 ELSE IF command = "run" THEN 1 ELSE 2

\* buf.ReadString, then reverseVal := *reverse under the mutex
IdeRead ==
    /\ es.pc = "idle"
    /\ \E command \in StepCommands :
          /\ es.nextNo + IdsNeeded(command) <= MaxBkptNo + 1
          /\ es' = [es EXCEPT !.pc = "latched", !.command = command, !.rev = reverse]
          /\ hist' = [Begun(es) EXCEPT !.command = command, !.rev = reverse]
    /\ UNCHANGED <<trace, reverse>>

IdeDispatch ==
    /\ es.pc = "latched"
    /\ \E junk \in JunkLevels(es) :
          es' = dispatchIdeRequest(es, es.command, es.rev, junk)
    /\ UNCHANGED <<trace, reverse, hist>>

HandlerRun ==
    /\ es.pc \notin {"idle", "latched", "respond", "panicked", "closed"}
    /\ ~es.wait
    /\ es' = HandlerStep(es)
    /\ UNCHANGED <<trace, reverse, hist>>

\* gdb stops the replay it was told to continue
GdbStops ==
    /\ es.cont # "none"
    /\ es' = GdbRun(es)
    /\ UNCHANGED <<trace, reverse, hist>>

StopNotified ==
    /\ es.wait
    /\ es.chan # 0
    /\ es' = continueExecutionRecv(es)
    /\ UNCHANGED <<trace, reverse, hist>>

\* conn.Write of the response, or the recovery from a panic of the handler
IdeWrite ==
    /\ es.pc \in {"respond", "panicked"}
    /\ es' = Finish(es)
    /\ hist' = Ended(hist, es)
    /\ UNCHANGED <<trace, reverse>>

\* A raw MI command ("-...") or a diversion ("#...") typed at the prompt is
\* sent to gdb; the prompt task then waits for its result
PromptSend ==
    /\ es.prompt = "none"
    /\ \E c \in {"mi", "diversion"} : es' = [es EXCEPT !.prompt = c]
    /\ UNCHANGED <<trace, reverse, hist>>

PromptResult ==
    /\ es.prompt # "none"
    /\ es' = [es EXCEPT !.prompt = "none"]
    /\ UNCHANGED <<trace, reverse, hist>>

PromptToggle ==
    /\ es.prompt = "none"
    /\ PromptDirection

NextConc ==
    \/ IdeRead
    \/ IdeDispatch
    \/ HandlerRun
    \/ GdbStops
    \/ StopNotified
    \/ IdeWrite
    \/ BreakpointSet
    \/ PromptSend
    \/ PromptResult
    \/ PromptToggle

SpecConc == Init /\ [][NextConc]_vars

(***************************************************************************)
(* The DBGp request boundary: parsing, the sequence-number check, the      *)
(* dispatch table and the handlers that answer without driving the replay. *)
(* A request is its command name followed by <<flag, value>> pairs.        *)
(***************************************************************************)
\* parseCommand: the flags become a map (a later pair overrides an earlier
\* one); a request without the flag i panics (ok = FALSE)
parseCommand(fullCommand) ==
    LET args == fullCommand.args
        flags == {args[k][1] : k \in DOMAIN args}
        options == [f \in flags |->
                       args[Max({k \in DOMAIN args : args[k][1] = f})][2]]
    IN  IF "i" \notin flags
        THEN [ok |-> FALSE, command |-> fullCommand.command, options |-> options,
              seqNum |-> 0]
        ELSE [ok |-> TRUE, command |-> fullCommand.command, options |-> options,
              seqNum |-> options["i"]]

\* The switch of dispatchIdeRequest: the handler of each case label
HandlerOf(command) ==
    CASE command = "feature_set" -> "handleFeatureSet"
      [] command = "status" -> "handleStatus"
      [] command = "breakpoint_set" -> "handleBreakpointSet"
      [] command = "breakpoint_remove" -> "handleBreakpointRemove"
      [] command = "breakpoint_update" -> "handleBreakpointUpdate"
      [] command = "step_into" -> "handleStepInto"
      [] command \in {"step_over", "step_out"} -> "handleStepOverOrOut"
      [] command \in {"eval", "property_get", "context_get"} ->
            "handleInDiversionSessionWithNoGdbBpts"
      [] command \in {"stdout", "stdin", "stderr"} -> "handleStdFd"
      [] command = "property_set" -> "handlePropertySet"
      [] command = "run" -> "handleRun"
      [] command = "stop" -> "handleStop"
      [] command \in {"stack_get", "stack_depth", "context_names", "typemap_get",
                      "source", "property_value"} ->
            "handleInDiversionSessionStandard"
      [] OTHER -> "unimplemented"

\* What a handler hands back: the engine, how the request ended ("response",
\* "error", "panic", "fatal", "hang"), the error code, the breakpoint id and the
\* feature value of the response where there is one
Reply(s, outcome, code, id, value) ==
    [es |-> s, outcome |-> outcome, code |-> code, id |-> id, value |-> value]

handleFeatureSet(s, dCmd) ==
    IF "n" \notin DOMAIN dCmd.options \/ "v" \notin DOMAIN dCmd.options
    THEN Reply(s, "panic", 0, 0, "")
    ELSE IF dCmd.options["n"] \notin DOMAIN s.featureMap
    THEN Reply(s, "panic", 0, 0, "")
    ELSE LET n == dCmd.options["n"]
             r == FeatureSetValue(s.featureMap[n], dCmd.options["v"])
         IN  IF ~r.ok
             THEN Reply(s, "panic", 0, 0, "")
             ELSE Reply([s EXCEPT !.featureMap[n] = r.feature], "response", 0, 0, "")

\* supported is 1 (code) for a feature of the map and 0 otherwise
handleFeatureGet(s, dCmd) ==
    IF "n" \notin DOMAIN dCmd.options
    THEN Reply(s, "panic", 0, 0, "")
    ELSE IF dCmd.options["n"] \in DOMAIN s.featureMap
    THEN Reply(s, "response", 1, 0, s.featureMap[dCmd.options["n"]].value)
    ELSE Reply(s, "response", 0, 0, "")

handleStatus(s, dCmd) == Reply(s, "response", 0, 0, s.status)
handlePropertySet(s, dCmd) == Reply(s, "response", 0, 0, "")
handleStdFd(s, dCmd) == Reply(s, "response", 0, 0, "")
handleStop(s, dCmd) == Reply([s EXCEPT !.status = "stopped"], "response", 0, 0, "stopped")

BreakpointTypes == {"line", "call", "return", "exception", "conditional", "watch"}

\* The internal type is deliberately not among the types a request may name
stringToBreakpointType(t) ==
    IF t \in BreakpointTypes THEN [ok |-> TRUE, type |-> t] ELSE [ok |-> FALSE, type |-> ""]

\* The option checks of handleBreakpointSetLineBreakpoint, in their order
handleBreakpointSetLine(s, dCmd) ==
    LET o == dCmd.options
    IN  IF "f" \notin DOMAIN o
        THEN Reply(s, "fatal", 0, 0, "")
        ELSE IF "s" \in DOMAIN o /\ o["s"] \notin {"enabled", "disabled"}
        THEN Reply(s, "fatal", 0, 0, "")
        ELSE IF "n" \notin DOMAIN o
        THEN Reply(s, "fatal", 0, 0, "")
        ELSE IF "h" \in DOMAIN o \/ "o" \in DOMAIN o
        THEN Reply(s, "error", 201, 0, "")
        ELSE LET disabled == ("s" \in DOMAIN o /\ o["s"] = "disabled")
                 temporary == ("r" \in DOMAIN o /\ o["r"] = 1)
             IN  IF o["f"] \notin DOMAIN sourceMap
                 THEN Reply(handleBreakpointSetLineBreakpoint(
                                s, o["f"], o["n"], disabled, temporary),
                            "error", 200, 0, "")
                 ELSE Reply(handleBreakpointSetLineBreakpoint(
                                s, o["f"], o["n"], disabled, temporary),
                            "response", 0, s.nextNo,
                            IF disabled THEN "disabled" ELSE "enabled")

handleBreakpointSet(s, dCmd) ==
    IF "t" \notin DOMAIN dCmd.options
    THEN Reply(s, "fatal", 0, 0, "")
    ELSE LET tt == stringToBreakpointType(dCmd.options["t"])
         IN  IF ~tt.ok
             THEN Reply(s, "fatal", 0, 0, "")
             ELSE IF tt.type = "line"
             THEN handleBreakpointSetLine(s, dCmd)
             ELSE Reply(s, "error", 201, 0, "")

\* breakpoint_remove -d: the id is handed to removeGdbBreakpoint as it came
handleBreakpointRemoveCmd(s, dCmd) ==
    IF "d" \notin DOMAIN dCmd.options
    THEN Reply(s, "fatal", 0, 0, "")
    ELSE Reply(handleBreakpointRemove(s, dCmd.options["d"]), "response", 0, 0, "")

\* breakpoint_update -d -s: the id is enabled or disabled as it came
handleBreakpointUpdateCmd(s, dCmd) ==
    LET o == dCmd.options
    IN  IF "d" \notin DOMAIN o \/ "n" \in DOMAIN o \/ "h" \in DOMAIN o
           \/ "o" \in DOMAIN o \/ "s" \notin DOMAIN o
        THEN Reply(s, "fatal", 0, 0, "")
        ELSE IF o["s"] \notin {"enabled", "disabled"}
        THEN Reply(s, "fatal", 0, 0, "")
        ELSE Reply(handleBreakpointUpdate(s, o["d"], o["s"]), "response", 0, 0, "")

\* A step or run request served to its end on the DBGp task
ServeStep(s, dCmd, rev, junk) ==
    LET s1 == Serve(dispatchIdeRequest(s, dCmd.command, rev, junk))
    IN  IF s1.pc = "respond" THEN Reply(s1, "response", 0, 0, "break")
        ELSE IF s1.pc = "panicked" THEN Reply(s1, "panic", 0, 0, "")
        ELSE Reply(s1, "hang", 0, 0, "")

\* A diversion request: the helper's result is the response
ServeDiversion(s) ==
    IF s.pc = "panicked" THEN Reply(s, "panic", 0, 0, "") ELSE Reply(s, "response", 0, 0, "")

\* dispatchIdeRequest with its sequence-number check and its whole switch.
\* dispatched tells whether a handler was entered; seq is the sequence number
\* the handlers write into their response.
dispatchIdeRequestCmd(s, fullCommand, rev, junk) ==
    LET dCmd == parseCommand(fullCommand)
        none == [handler |-> "none", dispatched |-> FALSE, seq |-> 0]
    IN  IF ~dCmd.ok
        THEN none @@ Reply(s, "panic", 0, 0, "")
        ELSE IF s.lastSequenceNum > dCmd.seqNum
        THEN none @@ Reply(s, "panic", 0, 0, "")
        ELSE LET s1 == [s EXCEPT !.lastSequenceNum = dCmd.seqNum]
                 h == HandlerOf(dCmd.command)
                 to == [handler |-> h, dispatched |-> (h # "unimplemented"),
                        seq |-> dCmd.seqNum]
             IN  to @@
                 (CASE h = "handleFeatureSet" -> handleFeatureSet(s1, dCmd)
                    [] h = "handleStatus" -> handleStatus(s1, dCmd)
                    [] h = "handleBreakpointSet" -> handleBreakpointSet(s1, dCmd)
                    [] h = "handleBreakpointRemove" -> handleBreakpointRemoveCmd(s1, dCmd)
                    [] h = "handleBreakpointUpdate" -> handleBreakpointUpdateCmd(s1, dCmd)
                    [] h \in {"handleStepInto", "handleStepOverOrOut", "handleRun"} ->
                          ServeStep(s1, dCmd, rev, junk)
                    [] h = "handleInDiversionSessionWithNoGdbBpts" ->
                          ServeDiversion(handleInDiversionSessionWithNoGdbBpts(s1))
                    [] h = "handleInDiversionSessionStandard" ->
                          ServeDiversion(handleInDiversionSessionStandard(s1))
                    [] h = "handleStdFd" -> handleStdFd(s1, dCmd)
                    [] h = "handlePropertySet" -> handlePropertySet(s1, dCmd)
                    [] h = "handleStop" -> handleStop(s1, dCmd)
                    [] OTHER -> Reply(s1, "panic", 0, 0, ""))

\* Variant: the loop goes on reading after a stop request
IdeLoopEnd_Mutant(r) ==
    LET rest == [r.es EXCEPT !.command = "none", !.junk = 0, !.id = 0, !.id2 = 0,
                             !.bpList = {}, !.ok = FALSE, !.fails = FALSE,
                             !.divBps = {}]
    IN  IF r.outcome \in {"response", "error"}
        THEN [rest EXCEPT !.pc = "idle"]
        ELSE IF r.outcome = "panic"
        THEN [rest EXCEPT !.pc = "closed"]
        ELSE IF r.outcome = "fatal"
        THEN [rest EXCEPT !.pc = "exited"]
        ELSE r.es

\* The end of one round of the loop of debuggerIdeLoop: the response is
\* written and the next request is read unless the status is stopped; a panic
\* is recovered outside the loop, which closes the connection; log.Fatal ends
\* the process; a handler that waits forever leaves the loop where it is
IdeLoopEnd(r) ==
    LET rest == [r.es EXCEPT !.command = "none", !.junk = 0, !.id = 0, !.id2 = 0,
                             !.bpList = {}, !.ok = FALSE, !.fails = FALSE,
                             !.divBps = {}]
    IN  IF r.outcome \in {"response", "error"}
        THEN [rest EXCEPT !.pc = IF rest.status = "stopped" THEN "closed" ELSE "idle"]
        ELSE IF r.outcome = "panic"
        THEN [rest EXCEPT !.pc = "closed"]
        ELSE IF r.outcome = "fatal"
        THEN [rest EXCEPT !.pc = "exited"]
        ELSE r.es

(***************************************************************************)
(* Specification SpecDbgp: the DBGp loop request by request.  The IDE may  *)
(* send any command of the protocol with any options, name any breakpoint  *)
(* id, leave out or repeat the sequence number; gdb may fail the           *)
(* expression evaluations of a request.                                    *)
(***************************************************************************)
\* The sequence-number flag of a well-behaved IDE: the next number (the
\* numbers stop growing at MaxSeq)
NextSeqArgs(s) == {<< <<"i", Min({s.lastSequenceNum + 1, MaxSeq})>> >>}

\* The sequence-number flag of any IDE: absent, or a number around the last
AnySeqArgs(s) ==
    {<<>>} \cup
    {<< <<"i", q>> >> :
        q \in {s.lastSequenceNum - 1, s.lastSequenceNum, s.lastSequenceNum + 1}
              \cap (0..MaxSeq)}

DiversionCommands ==
    {"eval", "property_get", "context_get", "property_value", "stack_get",
     "stack_depth", "context_names", "typemap_get", "source"}
PlainCommands == {"status", "stdout", "stdin", "stderr", "property_set", "stop"}
OtherCommands == {"feature_get", "detach"}

BreakpointSetArgs ==
    {<< <<"t", "line">>, <<"f", f>>, <<"n", n>>, <<"s", st>>, <<"r", r>> >> :
        f \in ScriptFiles \cup {UnknownFile}, n \in 1..MaxLine,
        st \in {"enabled", "disabled"}, r \in {0, 1}}
    \cup {<< <<"t", "line">>, <<"f", f>>, <<"n", 1>>, <<k, 1>> >> :
        f \in ScriptFiles \cup {UnknownFile}, k \in {"h", "o"}}
    \cup {<< <<"t", ty>>, <<"f", "a.s">>, <<"n", 1>> >> :
             ty \in {"line", "watch", "internal"}}

FeatureArgs ==
    {<< <<"n", n>>, <<"v", "1">> >> : n \in {"max_depth", "language_name", "nope"}}

\* The record of the request served last: the request as it was sent, whether
\* gdb failed its expression evaluations, and what came back
Answered(fullCommand, fails, r) ==
    [command |-> fullCommand.command,
     options |-> parseCommand(fullCommand).options,
     fails |-> fails,
     seq |-> r.seq,
     handler |-> r.handler,
     dispatched |-> r.dispatched,
     outcome |-> r.outcome,
     code |-> r.code,
     id |-> r.id,
     value |-> r.value,
     divBps |-> r.es.divBps]

NotAnswered ==
    [command |-> "none", options |-> <<>>, fails |-> FALSE, seq |-> 0, handler |-> "none",
     dispatched |-> FALSE, outcome |-> "none", code |-> 0, id |-> 0, value |-> "",
     divBps |-> {}]

\* One round of the loop: a request is read, the direction flag is copied,
\* the request is dispatched and served, and the round ends
DbgpRequest(commands, seqArgs, optionArgs, failures) ==
    /\ es.pc = "idle"
    /\ \E command \in commands, sa \in seqArgs, oa \in optionArgs,
          junk \in JunkLevels(es), fails \in failures :
          \E fullCommand \in {[command |-> command, args |-> sa \o oa]} :
          \E r \in {dispatchIdeRequestCmd([es EXCEPT !.fails = fails],
                                         fullCommand, reverse, junk)} :
              /\ r.es.nextNo <= MaxBkptNo + 1
              /\ es' = IdeLoopEnd(r)
              /\ hist' = Answered(fullCommand, fails, r)
    /\ UNCHANGED <<trace, reverse>>

\* Line breakpoints on the line of statements 1 and 3
LineBreakpointArgs ==
    {<< <<"t", "line">>, <<"f", "a.s">>, <<"n", 1>>, <<"s", st>>, <<"r", r>> >> :
        st \in {"enabled", "disabled"}, r \in {0, 1}}

BreakpointIdArgs == {<< <<"d", d>> >> : d \in 1..MaxBkptNo}
BreakpointStateArgs ==
    {<< <<"d", d>>, <<"s", st>> >> : d \in 1..MaxBkptNo, st \in {"enabled", "disabled"}}

DbgpStep == DbgpRequest(StepCommands, NextSeqArgs(es), {<<>>}, BOOLEAN)
DbgpDiversion ==
    DbgpRequest({"eval", "property_get", "property_value", "context_get", "stack_get"},
                NextSeqArgs(es), {<<>>}, BOOLEAN)
DbgpBreakpointSet ==
    /\ es.nextNo <= MaxBkptNo
    /\ DbgpRequest({"breakpoint_set"}, NextSeqArgs(es), LineBreakpointArgs, {FALSE})
DbgpBreakpointRemove ==
    DbgpRequest({"breakpoint_remove"}, NextSeqArgs(es), BreakpointIdArgs, {FALSE})
DbgpBreakpointUpdate ==
    DbgpRequest({"breakpoint_update"}, NextSeqArgs(es), BreakpointStateArgs, {FALSE})

NextDbgp ==
    \/ DbgpStep
    \/ DbgpDiversion
    \/ DbgpBreakpointSet
    \/ DbgpBreakpointRemove
    \/ DbgpBreakpointUpdate
    \/ PromptDirection

\* One recorded trace: statement 1 (line 1) calls a function whose statement
\* 2 (line 2) runs one level deeper; statement 3 (line 1) follows the call
InitDbgp ==
    /\ trace = [i \in 1..TraceLen |->
                   [file |-> "a.s", line |-> 1 + ((i + 1) % MaxLine),
                    level |-> IF i % 2 = 0 THEN 1 ELSE 0]]
    /\ es = InitEngine
    /\ reverse = FALSE
    /\ hist = NotAnswered

SpecDbgp == InitDbgp /\ [][NextDbgp]_vars

(***************************************************************************)
(* Specification SpecTable: the dispatch table.  Every command of the      *)
(* protocol, with well-formed or malformed options and any sequence        *)
(* number, in forward mode.                                                *)
(***************************************************************************)
TableStep == DbgpRequest(StepCommands, AnySeqArgs(es), {<<>>}, {FALSE})
TableDiversion == DbgpRequest(DiversionCommands, NextSeqArgs(es), {<<>>}, {FALSE})
TableBreakpointSet ==
    /\ es.nextNo <= MaxBkptNo
    /\ DbgpRequest({"breakpoint_set"}, NextSeqArgs(es), BreakpointSetArgs, {FALSE})
TableBreakpointRemove ==
    DbgpRequest({"breakpoint_remove"}, NextSeqArgs(es),
                {<< <<"d", d>> >> : d \in IdeBreakpointIds(es)}, {FALSE})
TableBreakpointUpdate ==
    DbgpRequest({"breakpoint_update"}, NextSeqArgs(es),
                {<< <<"d", d>>, <<"s", st>> >> :
                    d \in IdeBreakpointIds(es), st \in {"enabled", "disabled"}},
                {FALSE})
\* A breakpoint_update that names a field other than the state
BreakpointFieldArgs(s) ==
    {<< <<"d", d>>, <<"s", st>>, <<k, 1>> >> :
        d \in IdeBreakpointIds(s), st \in {"enabled", "disabled"}, k \in {"n", "h", "o"}}
TableBreakpointUpdateField ==
    DbgpRequest({"breakpoint_update"}, NextSeqArgs(es), BreakpointFieldArgs(es), {FALSE})
TableFeatureSet == DbgpRequest({"feature_set"}, NextSeqArgs(es), FeatureArgs, {FALSE})
TablePlain == DbgpRequest(PlainCommands, AnySeqArgs(es), {<<>>}, {FALSE})
TableOther ==
    DbgpRequest(OtherCommands, NextSeqArgs(es),
                {<< <<"n", "max_depth">> >>, << <<"n", "nope">> >>}, {FALSE})

NextTable ==
    \/ TableStep
    \/ TableDiversion
    \/ TableBreakpointSet
    \/ TableBreakpointRemove
    \/ TableBreakpointUpdate
    \/ TableBreakpointUpdateField
    \/ TableFeatureSet
    \/ TablePlain
    \/ TableOther

SpecTable == InitDbgp /\ [][NextTable]_vars

(***************************************************************************)
(* Specification SpecFeatures: sessions of feature_set and feature_get     *)
(* requests on writable, read-only and unknown features, with values the   *)
(* feature accepts and values it does not.                                 *)
(***************************************************************************)
FeatureNames == {"multiple_sessions", "show_hidden", "max_depth", "max_data",
                 "language_name", "protocol_version", "nope"}
FeatureValues == {"0", "1", "2", "01", "x"}
FeatureSetArgs == {<< <<"n", n>>, <<"v", v>> >> : n \in FeatureNames, v \in FeatureValues}
FeatureGetArgs == {<< <<"n", n>> >> : n \in FeatureNames}

FeatureSetRequest ==
    DbgpRequest({"feature_set"}, NextSeqArgs(es), FeatureSetArgs, {FALSE})
FeatureGetRequest ==
    DbgpRequest({"feature_get"}, NextSeqArgs(es), FeatureGetArgs, {FALSE})
FeatureStatusRequest ==
    DbgpRequest({"status"}, NextSeqArgs(es), {<<>>}, {FALSE})

NextFeatures ==
    \/ FeatureSetRequest
    \/ FeatureGetRequest
    \/ FeatureStatusRequest

SpecFeatures == InitDbgp /\ [][NextFeatures]_vars

(***************************************************************************)
(* Specification SpecIndex: building the location index from               *)
(* dontbug_break.c.  A file is a list of lines; a line carries the         *)
(* file-count sentinel with the text after it, the max-depth sentinel with *)
(* the text after it, a file marker with its URI, a level marker, or none  *)
(* of them; nl tells whether the line ends with a newline (only the last   *)
(* line of a file may lack it).  es is the file and hist the result.       *)
(***************************************************************************)
IndexUris == {"file:///a.s", "file:///b.s"}
NotANumber == -1
HeaderTexts == (0..MaxCount) \cup {NotANumber}
IndexLine(kind, val, uri, nl) == [kind |-> kind, val |-> val, uri |-> uri, nl |-> nl]
BodyLines ==
    {IndexLine("file", 0, u, TRUE) : u \in IndexUris}
    \cup {IndexLine("level", 0, "", TRUE), IndexLine("other", 0, "", TRUE)}
FirstLines ==
    {IndexLine("numFiles", v, "", TRUE) : v \in HeaderTexts} \cup {IndexLine("other", 0, "", TRUE)}
SecondLines ==
    {IndexLine("maxStackDepth", v, "", TRUE) : v \in HeaderTexts} \cup {IndexLine("other", 0, "", TRUE)}

\* The last line of the file with or without its newline
Unterminated(lines) ==
    IF lines = <<>> THEN lines
    ELSE [lines EXCEPT ![Len(lines)] = [lines[Len(lines)] EXCEPT !.nl = FALSE]]

IndexFiles ==
    LET bodies == UNION {[1..n -> BodyLines] : n \in 0..MaxBodyLines}
        whole == {<<>>} \cup {<<l1>> : l1 \in FirstLines}
                 \cup {<<l1, l2>> \o b : l1 \in FirstLines, l2 \in SecondLines, b \in bodies}
    IN  whole \cup {Unterminated(f) : f \in whole}

\* buf.ReadString('\n') of line k: the text read and the error
ReadString(lines, k) ==
    IF k > Len(lines) THEN [line |-> IndexLine("other", 0, "", FALSE), err |-> "EOF"]
    ELSE [line |-> lines[k], err |-> IF lines[k].nl THEN "nil" ELSE "EOF"]

NoIndex(outcome) ==
    [outcome |-> outcome, bpLocMap |-> <<>>, levelLocAr |-> <<>>, maxStackDepth |-> 0]

\* The loop over the body ends when ReadString reports EOF
IndexLoopEnds(r) == r.err = "EOF"

\* The loop of constructBreakpointLocMap from line lineno on: level is the
\* number of level markers seen; slot i of levelLocAr is levelLocAr[i - 1]
\* of the program
RECURSIVE IndexLoop(_, _, _, _, _, _)
IndexLoop(lines, lineno, bpLocMap, levelLocAr, level, numFiles) ==
    LET r == ReadString(lines, lineno)
    IN  IF IndexLoopEnds(r)
        THEN IF Cardinality(DOMAIN bpLocMap) # numFiles
             THEN NoIndex("fatal")
             ELSE [outcome |-> "ok", bpLocMap |-> bpLocMap, levelLocAr |-> levelLocAr,
                   maxStackDepth |-> Len(levelLocAr)]
        ELSE IF r.line.kind = "file"
        THEN IF r.line.uri \in DOMAIN bpLocMap
             THEN NoIndex("fatal")
             ELSE IndexLoop(lines, lineno + 1,
                            [u \in DOMAIN bpLocMap \cup {r.line.uri} |->
                                IF u = r.line.uri THEN lineno ELSE bpLocMap[u]],
                            levelLocAr, level, numFiles)
        ELSE IF r.line.kind = "level"
        THEN IF level >= Len(levelLocAr)
             THEN NoIndex("panic")
             ELSE IndexLoop(lines, lineno + 1, bpLocMap,
                            [levelLocAr EXCEPT ![level + 1] = lineno], level + 1,
                            numFiles)
        ELSE IndexLoop(lines, lineno + 1, bpLocMap, levelLocAr, level, numFiles)

constructBreakpointLocMap(lines) ==
    LET r1 == ReadString(lines, 1)
        r2 == ReadString(lines, 2)
    IN  IF r1.err # "nil" THEN NoIndex("fatal")
        ELSE IF r1.line.kind # "numFiles" THEN NoIndex("fatal")
        ELSE IF r1.line.val = NotANumber THEN NoIndex("fatal")
        ELSE IF r2.err # "nil" THEN NoIndex("fatal")
        ELSE IF r2.line.kind # "maxStackDepth" THEN NoIndex("fatal")
        ELSE IF r2.line.val = NotANumber THEN NoIndex("fatal")
        ELSE IndexLoop(lines, 3, <<>>, [i \in 1..r2.line.val |-> 0], 0, r1.line.val)

InitIndex ==
    /\ trace = <<>>
    /\ reverse = FALSE
    /\ es \in IndexFiles
    /\ hist = NoIndex("none")

BuildIndex ==
    /\ hist.outcome = "none"
    /\ hist' = constructBreakpointLocMap(es)
    /\ UNCHANGED <<trace, es, reverse>>

NextIndex == BuildIndex

SpecIndex == InitIndex /\ [][NextIndex]_vars

(***************************************************************************)
(* Specification SpecDepth: step_over, step_out and run requests served to *)
(* their end, with room for the two depth breakpoints of a reverse step    *)
(* that hits a user breakpoint first.  hist is the engine state at the     *)
(* moment the last request produced its response (or was abandoned).       *)
(***************************************************************************)
InitDepth ==
    /\ trace \in Traces
    /\ es = InitEngine
    /\ reverse = FALSE
    /\ hist = InitEngine

DepthRequest(command) ==
    /\ es.pc = "idle"
    /\ \E junk \in JunkLevels(es) :
          \E s1 \in {Serve(dispatchIdeRequest(es, command, reverse, junk))} :
              /\ s1.nextNo <= MaxDepthNo + 1
              /\ es' = Finish(s1)
              /\ hist' = s1
    /\ UNCHANGED <<trace, reverse>>

DepthStepInto == DepthRequest("step_into")
DepthStepOver == DepthRequest("step_over")
DepthStepOut == DepthRequest("step_out")
DepthRun == DepthRequest("run")

DepthBreakpointSet ==
    /\ es.pc = "idle"
    /\ es.nextNo <= MaxBkptNo
    /\ \E n \in 1..MaxLine, r \in BOOLEAN :
          es' = handleBreakpointSetLineBreakpoint(es, "a.s", n, FALSE, r)
    /\ UNCHANGED <<trace, reverse, hist>>

NextDepth ==
    \/ DepthStepInto
    \/ DepthStepOver
    \/ DepthStepOut
    \/ DepthRun
    \/ DepthBreakpointSet
    \/ PromptDirection

SpecDepth == InitDepth /\ [][NextDepth]_vars

(***************************************************************************)
(* Specification SpecNotify: the records gdb writes and the stop channel.  *)
(* gdb answers a command with a result record and reports what the replay  *)
(* does with notifications.  The gdb library reads the records in the      *)
(* order gdb wrote them: a result is handed to the task that sent the      *)
(* command, a notification is passed to the callback given to gdb.NewCmd,  *)
(* which sends the id of a breakpoint stop on the unbuffered channel       *)
(* stopEventChan and is blocked until continueExecution receives it.       *)
(* Whether the library can hand out results while the callback is blocked  *)
(* is not in this repository (es.shared, both cases).  exec-continue is    *)
(* sent by the startup, by continueExecution on the DBGp task, and by the  *)
(* prompt task when the user types it as a raw MI command.                 *)
(* hist.emitted lists the notifications gdb wrote and hist.delivered the   *)
(* stop ids continueExecution received, each with the sender of the        *)
(* continue that caused it and the number of that continue (recv: the     *)
(* number of the continue that the receiving continueExecution had sent).  *)
(***************************************************************************)
BootstrapBp == dontbugMasterBp + 1
RunningRecord == [class |-> "running", reason |-> "none", bkptno |-> 0]
StoppedBySignal == [class |-> "stopped", reason |-> "signal-received", bkptno |-> 0]
StopRecords ==
    {StoppedAtBreakpoint(n) : n \in {dontbugMasterBp, BootstrapBp + 1}}
    \cup {StoppedAtEnd, StoppedBySignal}

Result(to) == [kind |-> "result", to |-> to, n |-> RunningRecord, call |-> 0]
Notification(n, by, call) == [kind |-> "notify", to |-> by, n |-> n, call |-> call]

InitNotify ==
    /\ trace = <<>>
    /\ reverse = FALSE
    /\ \E shared \in BOOLEAN :
          es = [main |-> "boot", dbgp |-> "idle", prompt |-> "idle",
                cmds |-> <<>>, gdbRun |-> "stopped", by |-> "none", calls |-> 0,
                mine |-> 0,
                stream |-> <<>>, offer |-> 0, offerBy |-> "none", offerCall |-> 0,
                started |-> FALSE, shared |-> shared]
    /\ hist = [emitted |-> <<>>, delivered |-> <<>>]

GdbCommand(s, who, cmd) == [s EXCEPT !.cmds = Append(s.cmds, [who |-> who, cmd |-> cmd])]

\* startGdbAndInitDebugEngineState: exec-continue to the bootstrap breakpoint
StartupContinue ==
    /\ es.main = "boot"
    /\ es' = GdbCommand([es EXCEPT !.main = "boot_wait"], "main", "exec-continue")
    /\ UNCHANGED <<trace, reverse, hist>>

\* continueExecution on the DBGp task sends exec-continue
DbgpContinue ==
    /\ es.main = "ready"
    /\ es.dbgp = "idle"
    /\ es.calls < MaxContinues
    /\ es' = GdbCommand([es EXCEPT !.dbgp = "sending"], "dbgp", "exec-continue")
    /\ UNCHANGED <<trace, reverse, hist>>

\* The user types -exec-continue at the prompt
PromptContinue ==
    /\ es.main = "ready"
    /\ es.prompt = "idle"
    /\ es.calls < MaxContinues
    /\ es' = GdbCommand([es EXCEPT !.prompt = "sending"], "prompt", "exec-continue")
    /\ UNCHANGED <<trace, reverse, hist>>

\* gdb takes the next command once the replay is stopped
GdbAccepts ==
    /\ es.cmds # <<>>
    /\ es.gdbRun = "stopped"
    /\ LET c == Head(es.cmds)
       IN  IF c.cmd = "exec-continue"
           THEN /\ es' = [es EXCEPT !.cmds = Tail(es.cmds),
                                    !.gdbRun = "running",
                                    !.by = c.who,
                                    !.calls = es.calls + 1,
                                    !.mine = IF c.who = "dbgp" THEN es.calls + 1
                                             ELSE es.mine,
                                    !.stream = es.stream \o
                                        <<Result(c.who),
                                          Notification(RunningRecord, c.who, es.calls + 1)>>]
                /\ hist' = [hist EXCEPT !.emitted =
                               Append(hist.emitted,
                                      Notification(RunningRecord, c.who, es.calls + 1))]
           ELSE /\ es' = [es EXCEPT !.cmds = Tail(es.cmds),
                                    !.stream = Append(es.stream, Result(c.who))]
                /\ hist' = hist
    /\ UNCHANGED <<trace, reverse>>

\* The replay stops: at the bootstrap breakpoint the first time, later at a
\* breakpoint, at the end of the recording or on a signal
GdbStopsReplay ==
    /\ es.gdbRun = "running"
    /\ \E n \in IF es.by = "main" THEN {StoppedAtBreakpoint(BootstrapBp)} ELSE StopRecords :
          /\ es' = [es EXCEPT !.gdbRun = "stopped",
                              !.stream = Append(es.stream, Notification(n, es.by, es.calls))]
          /\ hist' = [hist EXCEPT !.emitted =
                         Append(hist.emitted, Notification(n, es.by, es.calls))]
    /\ UNCHANGED <<trace, reverse>>

\* A result reaches the task that waits for it in gdbSession.Send
ResultArrives(s, to) ==
    IF to = "main"
    THEN IF s.main = "boot_wait"
         THEN GdbCommand([s EXCEPT !.main = "eval_wait"], "main", "data-evaluate-expression")
         ELSE [s EXCEPT !.main = "ready"]
    ELSE IF to = "dbgp"
    THEN [s EXCEPT !.dbgp = "waiting"]
    ELSE [s EXCEPT !.prompt = "idle"]

\* if started { stopEventChan <- id }
CallbackSends(s) == s.started

\* The callback given to gdb.NewCmd
StopCallback(s, r) ==
    LET got == breakpointStopGetId(r.n)
    IN  IF got.ok
        THEN IF CallbackSends(s)
             THEN [s EXCEPT !.offer = got.id, !.offerBy = r.to, !.offerCall = r.call,
                            !.started = TRUE]
             ELSE [s EXCEPT !.started = TRUE]
        ELSE s

\* The library reads the next record, unless the callback is blocked
ReaderReads ==
    /\ es.stream # <<>>
    /\ es.offer = 0
    /\ LET r == Head(es.stream)
           s == [es EXCEPT !.stream = Tail(es.stream)]
       IN  es' = IF r.kind = "result" THEN ResultArrives(s, r.to) ELSE StopCallback(s, r)
    /\ UNCHANGED <<trace, reverse, hist>>

\* A library that hands out results while the callback is blocked
ResultsBypass ==
    /\ ~es.shared
    /\ es.offer # 0
    /\ \E k \in DOMAIN es.stream :
          /\ es.stream[k].kind = "result"
          /\ \A j \in 1..(k - 1) : es.stream[j].kind # "result"
          /\ es' = ResultArrives(
                      [es EXCEPT !.stream = SubSeq(es.stream, 1, k - 1)
                                            \o SubSeq(es.stream, k + 1, Len(es.stream))],
                      es.stream[k].to)
    /\ UNCHANGED <<trace, reverse, hist>>

\* breakId := <-es.breakStopNotify
ContinueReceives ==
    /\ es.dbgp = "waiting"
    /\ es.offer # 0
    /\ es' = [es EXCEPT !.dbgp = "idle", !.offer = 0, !.offerBy = "none", !.offerCall = 0]
    /\ hist' = [hist EXCEPT !.delivered =
                   Append(hist.delivered,
                          [id |-> es.offer, by |-> es.offerBy, call |-> es.offerCall,
                           recv |-> es.mine])]
    /\ UNCHANGED <<trace, reverse>>

\* The steps the program and gdb take on their own
NotifyStep ==
    \/ StartupContinue
    \/ GdbAccepts
    \/ GdbStopsReplay
    \/ ReaderReads
    \/ ResultsBypass
    \/ ContinueReceives

NextNotify ==
    \/ NotifyStep
    \/ DbgpContinue
    \/ PromptContinue

SpecNotify == InitNotify /\ [][NextNotify]_vars

\* The program and gdb do not stop while they can take a step; nothing makes
\* the client or the user send anything
SpecNotifyFair == SpecNotify /\ WF_vars(NotifyStep)

(***************************************************************************)
(* Specification SpecParse: the string replies of data-evaluate-expression.*)
(* A string is a sequence of characters.  es is the reply handed to        *)
(* parseGdbStringResponse, with the string gdb printed when the reply was  *)
(* made from one; hist is what parseGdbStringResponse returned.            *)
(***************************************************************************)
DoubleQuote == "\""
Backslash == "\\"
StringAlphabet == {"a", DoubleQuote, Backslash}
Strings(n) == UNION {[1..k -> StringAlphabet] : k \in 0..n}

\* The body gdb prints for s: each double quote is written as \"
RECURSIVE GdbQuoted(_)
GdbQuoted(s) ==
    IF s = <<>> THEN <<>>
    ELSE (IF Head(s) = DoubleQuote THEN <<Backslash, DoubleQuote>> ELSE <<Head(s)>>)
         \o GdbQuoted(Tail(s))

\* 0xADDR "body"
GdbStringReply(s) == <<"0", "x", "a", " ", DoubleQuote>> \o GdbQuoted(s) \o <<DoubleQuote>>

\* strings.Index and strings.LastIndex of a character, counted from 1 (0: none)
Index(str, c) ==
    IF \E i \in DOMAIN str : str[i] = c
    THEN Min({i \in DOMAIN str : str[i] = c})
    ELSE 0
LastIndex(str, c) ==
    IF \E i \in DOMAIN str : str[i] = c
    THEN Max({i \in DOMAIN str : str[i] = c})
    ELSE 0

Parsed(outcome, value) == [outcome |-> outcome, value |-> value]

\* The loop of unquoteGdbStringResult from character i on; the test i < l is
\* true of every index of the loop, so input[i+1] is read past the end when
\* the last character is a backslash (index out of range)
RECURSIVE unquoteGdbStringResult(_, _, _)
unquoteGdbStringResult(input, i, buf) ==
    IF i > Len(input) THEN Parsed("ok", buf)
    ELSE IF input[i] = Backslash
    THEN IF i + 1 > Len(input)
         THEN Parsed("panic", <<>>)
         ELSE IF input[i + 1] = DoubleQuote
         THEN unquoteGdbStringResult(input, i + 2, Append(buf, DoubleQuote))
         ELSE unquoteGdbStringResult(input, i + 1, Append(buf, input[i]))
    ELSE unquoteGdbStringResult(input, i + 1, Append(buf, input[i]))

parseGdbStringResponse(gdbResponse) ==
    LET first == Index(gdbResponse, DoubleQuote)
        last == LastIndex(gdbResponse, DoubleQuote)
    IN  IF first = last \/ first = 0 \/ last = 0
        THEN Parsed("error", <<>>)
        ELSE unquoteGdbStringResult(SubSeq(gdbResponse, first + 1, last - 1), 1, <<>>)

InitParse ==
    /\ trace = <<>>
    /\ reverse = FALSE
    /\ \/ \E s \in Strings(MaxStringLen) :
             es = [made |-> TRUE, s |-> s, reply |-> GdbStringReply(s)]
       \/ \E r \in Strings(MaxStringLen) :
             es = [made |-> FALSE, s |-> <<>>, reply |-> r]
    /\ hist = Parsed("none", <<>>)

ParseReply ==
    /\ hist.outcome = "none"
    /\ hist' = parseGdbStringResponse(es.reply)
    /\ UNCHANGED <<trace, es, reverse>>

NextParse == ParseReply

SpecParse == InitParse /\ [][NextParse]_vars

(***************************************************************************)
(* Specification SpecSteps: sessions of step requests only.  No user       *)
(* breakpoint is ever set; the statements of the script are on lines 1, 2, *)
(* 3 in the order they run, at every nesting of calls the depth allows.    *)
(* hist is the list of the requests served so far: command, direction,     *)
(* cursor before and after, outcome and the (filename, line) reported.     *)
(***************************************************************************)
StepOperations == {"step_into", "step_over", "step_out"}

StepTraces == {t \in [1..TraceLen -> [file : ScriptFiles, line : 1..TraceLen, level : Levels]] :
                  /\ \A i \in 1..TraceLen : t[i].line = i
                  /\ t[1].level = 0
                  /\ \A i \in 1..(TraceLen - 1) : t[i + 1].level <= t[i].level + 1}

\* One request served to its end, as the loop serves it
ServeRequest(s, command, rev, junk) == Serve(dispatchIdeRequest(s, command, rev, junk))

Report(s0, s1) ==
    [command |-> s0.command, rev |-> s0.rev, from |-> s0.pos, to |-> s1.pos,
     outcome |-> Outcome(s1), filename |-> s1.filename, lineno |-> s1.lineno]

InitSteps ==
    /\ trace \in StepTraces
    /\ es = InitEngine
    /\ reverse = FALSE
    /\ hist = <<>>

StepsRequest ==
    /\ es.pc = "idle"
    /\ Len(hist) < MaxReports
    /\ \E command \in StepOperations, junk \in JunkLevels(es) :
       \E s0 \in {dispatchIdeRequest(es, command, reverse, junk)} :
       \E s1 \in {Serve(s0)} :
          /\ es' = Finish(s1)
          /\ hist' = Append(hist, Report(s0, s1))
    /\ UNCHANGED <<trace, reverse>>

NextSteps ==
    \/ StepsRequest
    \/ PromptDirection

SpecSteps == InitSteps /\ [][NextSteps]_vars

(***************************************************************************)
(* Specification SpecSession: one replay session from the start of gdb to  *)
(* the end of the process.  The main task starts gdb, becomes the prompt   *)
(* task and runs the deferred calls of debuggerLoop when the prompt ends;  *)
(* the IDE task dials the IDE, sends the init packet, starts the DBGp loop *)
(* and waits on closeConnChan; the loop task reads and serves requests.    *)
(* es holds the position of each task, closeConnChan, the connection, gdb  *)
(* and the recorder; hist is the order in which the milestones of the      *)
(* session happened (each is recorded the first time it happens).          *)
(***************************************************************************)
Milestone(h, e) == IF \E k \in DOMAIN h : h[k] = e THEN h ELSE Append(h, e)
Happened(e) == \E k \in DOMAIN hist : hist[k] = e
Before(a, b) == \E i, j \in DOMAIN hist : i < j /\ hist[i] = a /\ hist[j] = b

\* Variant: the bootstrap breakpoint is inserted first
StartupCommands_Mutant ==
    <<"break-insert-boot", "break-insert-master", "gdb-set", "exec-continue",
      "data-evaluate-expression">>

\* The gdb commands of startGdbAndInitDebugEngineState, in program order
StartupCommands ==
    <<"break-insert-master", "break-insert-boot", "gdb-set", "exec-continue",
      "data-evaluate-expression">>

EntryFile == "a.s"

InitSession ==
    /\ trace = <<>>
    /\ reverse = FALSE
    /\ hist = <<>>
    /\ es = [main |-> "startup", step |-> 1, wait |-> FALSE,
             ide |-> "none", loop |-> "none", chan |-> 0,
             conn |-> "none", peer |-> "open",
             gdbCmd |-> "none", gdbRun |-> "stopped", gdbBps |-> <<>>,
             gdbAlive |-> TRUE, started |-> FALSE, stopEvents |-> 0,
             entryFilePHP |-> "", rrFile |-> "open", rrAwaited |-> FALSE,
             status |-> "none", served |-> 0, lateCmd |-> FALSE]

\* sendGdbCommand of the next startup command: the main task waits for the
\* result record
StartupSend ==
    /\ es.main = "startup"
    /\ ~es.wait
    /\ es' = [es EXCEPT !.gdbCmd = StartupCommands[es.step], !.wait = TRUE]
    /\ hist' = IF StartupCommands[es.step] = "exec-continue"
               THEN Milestone(hist, "continue_sent") ELSE hist
    /\ UNCHANGED <<trace, reverse>>

\* gdb serves the command it was sent.  Its MI interpreter is synchronous:
\* after the ^running of exec-continue it reads its next command only when
\* the replay has stopped
GdbServes ==
    /\ es.gdbCmd # "none"
    /\ es.gdbRun = "stopped"
    /\ LET c == es.gdbCmd
           served == [es EXCEPT !.gdbCmd = "none", !.wait = FALSE,
                                !.step = es.step + 1,
                                !.main = IF es.step = Len(StartupCommands)
                                         THEN "construct" ELSE "startup"]
       IN  CASE c = "break-insert-master" ->
                  /\ es' = [served EXCEPT !.gdbBps = Append(es.gdbBps,
                               [line |-> dontbugCstepLineNum, enabled |-> FALSE,
                                temp |-> FALSE])]
                  /\ hist' = Milestone(hist, "master_inserted")
             [] c = "break-insert-boot" ->
                  /\ es' = [served EXCEPT !.gdbBps = Append(es.gdbBps,
                               [line |-> dontbugCstepLineNumTemp, enabled |-> TRUE,
                                temp |-> TRUE])]
                  /\ hist' = Milestone(hist, "boot_inserted")
             [] c = "gdb-set" ->
                  /\ es' = served
                  /\ hist' = hist
             [] c = "exec-continue" ->
                  /\ es' = [served EXCEPT !.gdbRun = "running"]
                  /\ hist' = hist
             [] c = "data-evaluate-expression" ->
                  /\ es' = [served EXCEPT !.entryFilePHP = EntryFile]
                  /\ hist' = Milestone(hist, "uri_evaluated")
    /\ UNCHANGED <<trace, reverse>>

\* The replay reaches the bootstrap breakpoint: gdb deletes the temporary
\* breakpoint and notifies the stop; the callback does not forward the
\* first stop notification
GdbStopsAtBootstrap ==
    /\ es.gdbRun = "running"
    /\ \E k \in DOMAIN es.gdbBps : es.gdbBps[k].enabled
    /\ es' = [es EXCEPT !.gdbRun = "stopped",
                        !.gdbBps = SelectSeq(es.gdbBps, LAMBDA b : ~b.temp),
                        !.stopEvents = IF es.started THEN es.stopEvents + 1
                                       ELSE es.stopEvents,
                        !.started = TRUE]
    /\ hist' = Milestone(hist, "boot_stop")
    /\ UNCHANGED <<trace, reverse>>

\* The engine state is constructed and debuggerLoop starts the IDE task and
\* goes on to read the prompt
DebuggerLoopStarts ==
    /\ es.main = "construct"
    /\ es' = [es EXCEPT !.main = "readline", !.ide = "dial", !.status = "starting"]
    /\ UNCHANGED <<trace, reverse, hist>>

\* net.Dial: the IDE listens, or log.Fatalf ends the process
IdeDials ==
    /\ es.ide = "dial"
    /\ \/ es' = [es EXCEPT !.ide = "init", !.conn = "open"]
       \/ es' = [es EXCEPT !.ide = "exited", !.main = "exited", !.loop = "exited"]
    /\ UNCHANGED <<trace, reverse, hist>>

\* The init packet is written and the loop task is started; the IDE task
\* then waits on closeConnChan
IdeSendsInit ==
    /\ es.ide = "init"
    /\ es' = [es EXCEPT !.ide = "wait", !.loop = "read"]
    /\ hist' = Milestone(hist, "init_sent")
    /\ UNCHANGED <<trace, reverse>>

\* The IDE closes its end of the connection
ClientDisconnects ==
    /\ es.conn = "open"
    /\ es.peer = "open"
    /\ es' = [es EXCEPT !.peer = "eof"]
    /\ UNCHANGED <<trace, reverse, hist>>

\* buf.ReadString returns a request of the IDE
LoopReadsRequest ==
    /\ es.loop = "read"
    /\ es.status # "stopped"
    /\ es.conn = "open"
    /\ es.peer = "open"
    /\ es.served < MaxRequests
    /\ es' = [es EXCEPT !.loop = "dispatch"]
    /\ hist' = Milestone(hist, "request_read")
    /\ UNCHANGED <<trace, reverse>>

\* The loop ends: the status is stopped, or buf.ReadString returns EOF or
\* an error of a closed connection
LoopEnds ==
    /\ es.loop = "read"
    /\ \/ /\ es.status = "stopped"
          /\ hist' = hist
       \/ /\ es.status # "stopped"
          /\ es.conn = "closed"
          /\ hist' = hist
       \/ /\ es.status # "stopped"
          /\ es.conn = "open"
          /\ es.peer = "eof"
          /\ hist' = Milestone(hist, "eof_seen")
    /\ es' = [es EXCEPT !.loop = "signal"]
    /\ UNCHANGED <<trace, reverse>>

\* dispatchIdeRequest and conn.Write: the request is answered, stops the
\* engine, panics (recovered outside the loop), ends the process
\* (log.Fatal) or never returns.  A handler that drives gdb (gdbUsed) sends
\* its MI commands with sendGdbCommand; once gdb has been exited
\* gdbSession.Send fails (log.Fatal) or no result ever comes, and the
\* command counts as sent late (es.lateCmd)
LoopServes ==
    /\ es.loop = "dispatch"
    /\ \E gdbUsed \in BOOLEAN, outcome \in {"response", "stop", "panic", "fatal", "hang"} :
          /\ gdbUsed => outcome # "stop"
          /\ ~gdbUsed => outcome # "hang"
          /\ (gdbUsed /\ ~es.gdbAlive) => outcome \in {"fatal", "hang"}
          /\ es' = [(CASE outcome = "response" ->
                            [es EXCEPT !.loop = "read", !.served = es.served + 1,
                                       !.status = "break"]
                       [] outcome = "stop" ->
                            [es EXCEPT !.loop = "read", !.served = es.served + 1,
                                       !.status = "stopped"]
                       [] outcome = "panic" -> [es EXCEPT !.loop = "signal"]
                       [] outcome = "fatal" ->
                            [es EXCEPT !.loop = "exited", !.ide = "exited",
                                       !.main = "exited", !.conn = "closed"]
                       [] outcome = "hang" -> [es EXCEPT !.loop = "hung"])
                    EXCEPT !.lateCmd = es.lateCmd \/ (gdbUsed /\ ~es.gdbAlive)]
    /\ UNCHANGED <<trace, reverse, hist>>

\* Variant: closeConnChan has no buffer, a send needs the receiver to wait
closeConnChanFree_Mutant(s) == s.chan = 0 /\ s.ide = "wait"

\* make(chan bool, 1): a send completes when the buffer is empty
closeConnChanFree(s) == s.chan = 0

\* The deferred closeConnChan <- true of the loop task (capacity 1)
LoopSignals ==
    /\ es.loop = "signal"
    /\ closeConnChanFree(es)
    /\ es' = [es EXCEPT !.loop = "ended", !.chan = 1]
    /\ UNCHANGED <<trace, reverse, hist>>

\* <-closeConnChan in debuggerIdeLoop
IdeIsSignalled ==
    /\ es.ide = "wait"
    /\ es.chan = 1
    /\ es' = [es EXCEPT !.ide = "close", !.chan = 0]
    /\ UNCHANGED <<trace, reverse, hist>>

\* The deferred conn.Close() of debuggerIdeLoop
IdeClosesConnection ==
    /\ es.ide = "close"
    /\ es' = [es EXCEPT !.ide = "ended", !.conn = "closed"]
    /\ hist' = Milestone(hist, "socket_closed")
    /\ UNCHANGED <<trace, reverse>>

\* A line typed at the prompt: t toggles the direction, q (or EOF, or an
\* interrupt) ends the prompt loop
PromptInput ==
    /\ es.main = "readline"
    /\ \/ /\ reverse' = ~reverse
          /\ es' = es
       \/ /\ reverse' = reverse
          /\ es' = [es EXCEPT !.main = "d_rdline"]
    /\ hist' = Milestone(hist, "prompt_input")
    /\ UNCHANGED trace

\* The deferred calls of debuggerLoop, last registered first:
\* rdline.Close(), closeConChan <- true, gdbSession.Exit(), and
\* rrFile.Close() followed by rrCmd.Wait()
debuggerLoopDeferred ==
    /\ es.main \in {"d_rdline", "d_signal", "d_gdbexit", "d_rrclose", "d_rrwait"}
    /\ CASE es.main = "d_rdline" ->
              /\ es' = [es EXCEPT !.main = "d_signal"]
              /\ hist' = hist
         [] es.main = "d_signal" ->
              /\ closeConnChanFree(es)
              /\ es' = [es EXCEPT !.main = "d_gdbexit", !.chan = 1]
              /\ hist' = hist
         [] es.main = "d_gdbexit" ->
              /\ es' = [es EXCEPT !.main = "d_rrclose", !.gdbAlive = FALSE]
              /\ hist' = Milestone(hist, "gdb_exited")
         [] es.main = "d_rrclose" ->
              /\ es' = [es EXCEPT !.main = "d_rrwait", !.rrFile = "closed"]
              /\ hist' = Milestone(hist, "rr_file_closed")
         [] es.main = "d_rrwait" ->
              /\ es' = [es EXCEPT !.main = "returned", !.rrAwaited = TRUE]
              /\ hist' = Milestone(hist, "rr_awaited")
    /\ UNCHANGED <<trace, reverse>>

\* debuggerLoop has returned: DoReplay returns and the process ends with
\* whatever the other tasks were doing; its descriptors are closed with it
ProcessEnds ==
    /\ es.main = "returned"
    /\ es' = [es EXCEPT !.main = "exited", !.ide = "exited", !.loop = "exited",
                        !.conn = IF es.conn = "open" THEN "closed" ELSE es.conn]
    /\ UNCHANGED <<trace, reverse, hist>>

\* The steps the program takes on its own
SessionStep ==
    \/ StartupSend
    \/ GdbServes
    \/ GdbStopsAtBootstrap
    \/ DebuggerLoopStarts
    \/ IdeDials
    \/ IdeSendsInit
    \/ LoopEnds
    \/ LoopServes
    \/ LoopSignals
    \/ IdeIsSignalled
    \/ IdeClosesConnection
    \/ debuggerLoopDeferred
    \/ ProcessEnds

NextSession ==
    \/ SessionStep
    \/ ClientDisconnects
    \/ LoopReadsRequest
    \/ PromptInput

SpecSession == InitSession /\ [][NextSession]_vars

\* Every task that can take a step eventually takes one; the IDE and the
\* user at the prompt do what they do when they please
SpecSessionFair == SpecSession /\ WF_vars(SessionStep)

(***************************************************************************)
(* Reading the trace: what the requests are expected to report             *)
(***************************************************************************)
LineOf(i) == <<trace[i].file, trace[i].line>>
Resting(pos) == InTrace(pos) /\ SiteOf(pos) \in {SiteBreak, SiteMaster}
Served(h) == h.command \in StepCommands /\ h.outcome = "break"
Reported(h) == StmtOf(h.to)

\* Statement c calls a function: the next statement runs one level deeper
Calls(c) == c < TraceLen /\ trace[c + 1].level = trace[c].level + 1
\* The statements after (before) i that run at level L or above it in the stack
LaterAtMost(i, L) == {j \in (i + 1)..TraceLen : trace[j].level <= L}
EarlierAtMost(i, L) == {j \in 1..(i - 1) : trace[j].level <= L}
\* The statements of the trace where an enabled user breakpoint of the set lies
ArmedStmts(armed) == {j \in 1..TraceLen : LineOf(j) \in armed}

(***************************************************************************)
(* C1: each step_into moves the cursor by exactly one statement in its     *)
(* direction, whatever user breakpoints are enabled: of two consecutive    *)
(* step_into requests of one direction the second reports the statement    *)
(* next to (forward: after, reverse: before) the one the first reported.   *)
(***************************************************************************)
C1_StepIntoMovesOneStatement ==
    [][(/\ Served(hist) /\ hist.command = "step_into"
        /\ hist' # hist
        /\ Served(hist') /\ hist'.command = "step_into"
        /\ hist'.rev = hist.rev)
       => Reported(hist') = Reported(hist) + (IF hist.rev THEN 0 - 1 ELSE 1)]_vars

(***************************************************************************)
(* C2: with an enabled line breakpoint, a forward run from the session     *)
(* start breaks at the first occurrence of the breakpoint's line; the      *)
(* reverse run that follows breaks at the most recent earlier occurrence   *)
(* or, when there is none, at the entry (the first statement).             *)
(***************************************************************************)
RunFromStart(h) ==
    /\ h.command = "run" /\ ~h.rev
    /\ h.from = PosOf(1, SiteTemp)
    /\ ArmedStmts(h.armed) # {}

C2_RunBreaksAtBreakpoint ==
    /\ [](RunFromStart(hist)
            => Served(hist) /\ Reported(hist) = Min(ArmedStmts(hist.armed)))
    /\ [][(/\ RunFromStart(hist) /\ Served(hist)
           /\ hist' # hist
           /\ hist'.command = "run" /\ hist'.rev
           /\ hist'.armed = hist.armed)
          => /\ Served(hist')
             /\ LET earlier == {j \in ArmedStmts(hist.armed) : j < Reported(hist)}
                IN  Reported(hist') = IF earlier = {} THEN 1 ELSE Max(earlier)]_vars

(***************************************************************************)
(* C3: at a call site c (cursor resting on c, depth L), with no enabled    *)
(* user breakpoint on a statement of the called function, a forward        *)
(* step_over ends at the statement of the same function that follows the   *)
(* call, and the reverse step_over issued from there ends at c.            *)
(***************************************************************************)
FollowsCall(c) == Min(LaterAtMost(c, trace[c].level))

AtCallSite(h) ==
    /\ h.command = "step_over" /\ ~h.rev
    /\ Resting(h.from)
    /\ LET c == StmtOf(h.from)
       IN  /\ Calls(c)
           /\ LaterAtMost(c, trace[c].level) # {}
           /\ trace[FollowsCall(c)].level = trace[c].level
           /\ \A y \in (c + 1)..(FollowsCall(c) - 1) : LineOf(y) \notin h.armed

CallSiteOf(x) == Max(EarlierAtMost(x, trace[x].level - 1))

C4_StepOutEndsAtCaller ==
    (/\ Served(hist) /\ hist.command = "step_out"
     /\ Resting(hist.from)
     /\ trace[StmtOf(hist.from)].level > 0
     /\ hist.armed = {})
    => LET x == StmtOf(hist.from)
       IN  IF hist.rev
           THEN Reported(hist) = CallSiteOf(x)
           ELSE /\ Reported(hist) = Min(LaterAtMost(x, trace[x].level - 1))
                /\ trace[Reported(hist)].level = trace[x].level - 1

(***************************************************************************)
(* C5: a reverse step_over or step_out does not run past an enabled user   *)
(* breakpoint: no statement strictly between the statement it reports and  *)
(* the statement it was issued at carries an enabled user breakpoint.      *)
(***************************************************************************)
C5_ReverseStepStopsAtBreakpoint ==
    (/\ Served(hist) /\ hist.command \in {"step_over", "step_out"} /\ hist.rev
     /\ Resting(hist.from))
    => \A y \in ArmedStmts(hist.armed) :
          ~(Reported(hist) < y /\ y < StmtOf(hist.from))

(***************************************************************************)
(* C6: every step_into, step_over, step_out and run request terminates;    *)
(* none is left waiting forever for a stop notification.                   *)
(***************************************************************************)
C6_RequestsTerminate ==
    hist.command \in StepCommands => hist.outcome # "pending" /\ ~Blocked(es)

(***************************************************************************)
(* C7: every id held in the breakpoint registry is the id of a breakpoint  *)
(* that exists in gdb.                                                     *)
(***************************************************************************)
C7_RegistryIdsLive ==
    \A id \in DOMAIN es.breakpoints : id \in DOMAIN es.gdb

(***************************************************************************)
(* C8: after any sequence of enable/disable operations (breakpoint_update, *)
(* disable-all, disable-list, enable-list, insertion with the disabled     *)
(* option) the enabled user breakpoints of the registry are exactly the    *)
(* user breakpoint ids that gdb has enabled.                               *)
(***************************************************************************)
GdbEnabledAmong(s, ids) == {id \in ids \cap DOMAIN s.gdb : s.gdb[id].enabled}

C8_EnabledSetsAgree ==
    getEnabledPhpBreakpoints(es) = GdbEnabledAmong(es, IdeBreakpointIds(es))

\* After an enable-list one user breakpoint is enabled and another disabled
C8_Witness ==
    /\ hist.command = "enable_list"
    /\ \E a, b \in IdeBreakpointIds(es) :
          /\ es.breakpoints[a].state = "enabled" /\ es.gdb[a].enabled
          /\ es.breakpoints[b].state = "disabled" /\ ~es.gdb[b].enabled

(***************************************************************************)
(* C9: every continue that runs in the request's direction runs in the     *)
(* direction copied from the flag when the request was read, whatever is   *)
(* typed at the prompt while the request is served.                        *)
(***************************************************************************)
C9_DirectionIsLatched ==
    (es.cont # "none" /\ es.pc \in {"step_into_1", "step_1", "run_2"})
    => (es.cont = "rev") = hist.rev

\* A continue of the request is in flight and the flag was changed meanwhile
C9_Witness ==
    /\ es.cont # "none"
    /\ es.pc \in {"step_into_1", "step_1", "run_2"}
    /\ hist.rev # reverse

(***************************************************************************)
(* C10: no command typed at the prompt is in flight to gdb while a DBGp    *)
(* request is being served.                                                *)
(***************************************************************************)
RequestInService(s) == s.pc \notin {"idle", "latched", "closed"}

C10_SingleCommandInFlight ==
    ~(es.prompt # "none" /\ RequestInService(es))

(***************************************************************************)
(* C11: when gdb fails an expression evaluation while a step or diversion  *)
(* request is served, the failure is caught at the boundary of that        *)
(* request: the client gets an error response for it and the DBGp loop     *)
(* goes on to read the next request.                                       *)
(***************************************************************************)
C11_FailureAnsweredWithError ==
    (/\ hist.fails
     /\ hist.handler \in {"handleStepInto", "handleStepOverOrOut",
                          "handleInDiversionSessionStandard",
                          "handleInDiversionSessionWithNoGdbBpts"}
     /\ hist.outcome # "hang")
    => (hist.outcome = "error" /\ es.pc = "idle")

(***************************************************************************)
(* C12: exactly one master stepping breakpoint exists, in the registry and *)
(* in gdb, after any sequence of requests, breakpoint_remove and           *)
(* breakpoint_update with any id included.                                 *)
(***************************************************************************)
C12_OneMasterBreakpoint ==
    /\ Cardinality({id \in DOMAIN es.breakpoints :
                       es.breakpoints[id].bpType = "internal"}) = 1
    /\ Cardinality({id \in DOMAIN es.gdb :
                       /\ es.gdb[id].source = "dontbug.c"
                       /\ es.gdb[id].line = dontbugCstepLineNum}) = 1

(***************************************************************************)
(* C13: whenever the DBGp loop waits for a request, the master stepping    *)
(* breakpoint is disabled in the registry and in gdb.                      *)
(***************************************************************************)
C13_MasterDisabledWhenIdle ==
    es.pc = "idle"
    => /\ \A id \in DOMAIN es.breakpoints :
             es.breakpoints[id].bpType = "internal"
                => es.breakpoints[id].state = "disabled"
       /\ \A id \in DOMAIN es.gdb :
             (es.gdb[id].source = "dontbug.c" /\ es.gdb[id].line = dontbugCstepLineNum)
                => ~es.gdb[id].enabled

(***************************************************************************)
(* C14: for eval, property_get, property_value and context_get no user     *)
(* breakpoint is enabled in gdb at the moment the diversion helper is      *)
(* invoked.                                                                *)
(***************************************************************************)
C14_DiversionWithoutUserBreakpoints ==
    (hist.command \in {"eval", "property_get", "property_value", "context_get"}
     /\ hist.dispatched)
    => hist.divBps = {}

(***************************************************************************)
(* C15: a step_into, step_over, step_out, run, eval, property_get or       *)
(* context_get request that completes normally leaves every user           *)
(* breakpoint that is still in the registry with the enabled/disabled      *)
(* state it had before, in the registry and in gdb; the registry entries   *)
(* that disappear are temporary breakpoints that were enabled (consumed by *)
(* a hit).                                                                 *)
(***************************************************************************)
RestoringCommands ==
    {"step_into", "step_over", "step_out", "run", "eval", "property_get", "context_get"}

C15_BreakpointStatesRestored ==
    [][(/\ reverse' = reverse
        /\ hist'.command \in RestoringCommands
        /\ hist'.outcome = "response")
       => /\ \A id \in IdeBreakpointIds(es') :
                /\ id \in DOMAIN es.breakpoints
                /\ es'.breakpoints[id].state = es.breakpoints[id].state
                /\ id \in DOMAIN es.gdb
                      => /\ id \in DOMAIN es'.gdb
                         /\ es'.gdb[id].enabled = es.gdb[id].enabled
          /\ \A id \in IdeBreakpointIds(es) \ IdeBreakpointIds(es') :
                /\ es.breakpoints[id].temporary
                /\ es.breakpoints[id].state = "enabled"]_vars

(***************************************************************************)
(* C16: every command of the dispatch table is routed to its handler; in   *)
(* particular feature_get returns the current value of the named feature,  *)
(* with supported=0 for an unknown name.  Only a command outside the table *)
(* takes the unknown-command path.                                         *)
(***************************************************************************)
DbgpCommandTable ==
    {"feature_set", "feature_get", "status", "breakpoint_set", "breakpoint_remove",
     "breakpoint_update", "step_into", "step_over", "step_out", "run", "eval",
     "property_get", "property_value", "context_get", "stack_get", "stack_depth",
     "context_names", "typemap_get", "source", "property_set", "stdout", "stderr",
     "stdin", "stop"}

\* The request passed the sequence-number check
Accepted(h) == h.handler # "none"

C16_TableCommandsRouted ==
    Accepted(hist)
    => /\ hist.command \in DbgpCommandTable <=> hist.dispatched
       /\ hist.command = "feature_get"
             => LET r == handleFeatureGet(es, [options |-> hist.options])
                IN  /\ hist.outcome = "response"
                    /\ hist.code = r.code
                    /\ hist.value = r.value

(***************************************************************************)
(* C17: a request without the sequence-number flag i, or with the sequence *)
(* number the request before it carried, is a fatal protocol error: it is  *)
(* not dispatched to a handler, it changes no engine state, and the        *)
(* session terminates.                                                     *)
(***************************************************************************)
C17_BadSequenceNumberIsFatal ==
    [][(\/ "i" \notin DOMAIN hist'.options
        \/ /\ Accepted(hist)
           /\ "i" \in DOMAIN hist.options
           /\ hist'.options["i"] = hist.options["i"])
       => /\ ~hist'.dispatched
          /\ hist'.outcome = "panic"
          /\ es' = [es EXCEPT !.pc = "closed"]]_vars

(***************************************************************************)
(* C18: for every script file of the location index and every line, a      *)
(* breakpoint_set of type line (without the options h and o) succeeds,     *)
(* returns an id that no registry entry has, and adds to the registry one  *)
(* entry with that id, the file, the line, the requested state and the     *)
(* requested temporary flag.                                               *)
(***************************************************************************)
LineBreakpointRequest(h) ==
    /\ Accepted(h)
    /\ h.command = "breakpoint_set"
    /\ {"t", "f", "n"} \subseteq DOMAIN h.options
    /\ h.options["t"] = "line"
    /\ "h" \notin DOMAIN h.options
    /\ "o" \notin DOMAIN h.options

RequestedEntry(h) ==
    [filename |-> h.options["f"],
     lineno |-> h.options["n"],
     state |-> IF "s" \in DOMAIN h.options THEN h.options["s"] ELSE "enabled",
     temporary |-> ("r" \in DOMAIN h.options /\ h.options["r"] = 1),
     bpType |-> "line"]

C19_UnknownFileIsAnError ==
    [][(LineBreakpointRequest(hist') /\ hist'.options["f"] \notin DOMAIN sourceMap)
       => /\ hist'.outcome = "error"
          /\ hist'.code = 200
          /\ hist'.seq = hist'.options["i"]
          /\ es' = [es EXCEPT !.lastSequenceNum = hist'.seq]
          /\ es'.pc = "idle"]_vars

\* The error was answered while a user breakpoint was registered
C19_Witness ==
    /\ LineBreakpointRequest(hist)
    /\ hist.options["f"] = UnknownFile
    /\ hist.outcome = "error"
    /\ es.pc = "idle"
    /\ IdeBreakpointIds(es) # {}

(***************************************************************************)
(* C20: a breakpoint_set whose type is any value other than line, and a    *)
(* line breakpoint_set that carries option h or o, is answered with the    *)
(* error response of code 201 (type not supported); the registry and gdb's *)
(* breakpoints are unchanged and the session continues.                    *)
(***************************************************************************)
C20_UnsupportedTypeIsAnError ==
    [][(/\ Accepted(hist')
        /\ hist'.command = "breakpoint_set"
        /\ {"t", "f", "n"} \subseteq DOMAIN hist'.options
        /\ \/ hist'.options["t"] # "line"
           \/ "h" \in DOMAIN hist'.options
           \/ "o" \in DOMAIN hist'.options)
       => /\ hist'.outcome = "error"
          /\ hist'.code = 201
          /\ es' = [es EXCEPT !.lastSequenceNum = hist'.seq]
          /\ es'.pc = "idle"]_vars

(***************************************************************************)
(* C21: a breakpoint_update that names an unsupported field (line number   *)
(* n, hit condition h or hit value o) is answered with an error response,  *)
(* the breakpoint's state in the registry and in gdb is unchanged, and the *)
(* loop goes on to read the next request.                                  *)
(***************************************************************************)
C21_UnsupportedUpdateFieldIsAnError ==
    [][(/\ Accepted(hist')
        /\ hist'.command = "breakpoint_update"
        /\ "d" \in DOMAIN hist'.options
        /\ DOMAIN hist'.options \cap {"n", "h", "o"} # {})
       => /\ hist'.outcome = "error"
          /\ es'.breakpoints = es.breakpoints
          /\ es'.gdb = es.gdb
          /\ es'.pc = "idle"]_vars

(***************************************************************************)
(* C22: whenever the loop is about to read the next request the engine     *)
(* status is break, and a status request is answered with status break.    *)
(***************************************************************************)
C22_StatusIsBreakWhenReading ==
    /\ es.pc = "idle" => es.status = "break"
    /\ (Accepted(hist) /\ hist.command = "status" /\ hist.outcome = "response")
          => hist.value = "break"

(***************************************************************************)
(* C23: every request the loop reads (well-formed, with a sequence number  *)
(* that passes the check) is answered with one response before the next    *)
(* request is read, and a response built by the bridge's own handlers      *)
(* carries the sequence number of the request.                             *)
(***************************************************************************)
DiversionHandlers ==
    {"handleInDiversionSessionWithNoGdbBpts", "handleInDiversionSessionStandard"}

C23_OneResponsePerRequest ==
    [][Accepted(hist')
       => /\ hist'.outcome \in {"response", "error"}
          /\ hist'.handler \notin DiversionHandlers
                => hist'.seq = hist'.options["i"]]_vars

(***************************************************************************)
(* C24: once the DBGp loop has seen the end of the client's connection     *)
(* (EOF), gdb is eventually exited and the recorder eventually awaited,    *)
(* whether or not anything is typed at the prompt.                         *)
(***************************************************************************)
C24_DisconnectLeadsToTeardown ==
    Happened("eof_seen") ~> (~es.gdbAlive /\ es.rrAwaited)

(***************************************************************************)
(* C25: the client socket is closed when gdb is exited, and a teardown     *)
(* that has awaited the recorder has closed the socket, then written the   *)
(* interrupt byte to the recorder, then exited gdb, then awaited the       *)
(* recorder, in this order.                                                *)
(***************************************************************************)
C25_TeardownOrder ==
    /\ ~es.gdbAlive => es.conn # "open"
    /\ (Happened("rr_awaited") /\ Happened("init_sent"))
          => /\ Before("socket_closed", "interrupt_sent")
             /\ Before("interrupt_sent", "gdb_exited")
             /\ Before("gdb_exited", "rr_awaited")

StraightLine == \A i \in 1..TraceLen : trace[i].level = 0
ThreeForwardThenReverse(h) ==
    \A k \in DOMAIN h : h[k].command = "step_into" /\ h[k].rev = (k > TraceLen)
ExpectedLine(k) == IF k <= TraceLen THEN k ELSE 2 * TraceLen + 1 - k

C27_ThreeForwardThreeReverse ==
    (StraightLine /\ ThreeForwardThenReverse(hist))
    => \A k \in DOMAIN hist :
          /\ hist[k].outcome = "break"
          /\ hist[k].filename = "a.s"
          /\ hist[k].lineno = ExpectedLine(k)

(***************************************************************************)
(* C28: for every sequence of answered reverse step operations started at  *)
(* a cursor position p there is a sequence of forward step operations of   *)
(* the same length that brings the cursor back to p, and every (filename,  *)
(* line) reported on the way back and forth is the statement of the trace  *)
(* at the cursor.                                                          *)
(***************************************************************************)
ReportIsTrace(s) ==
    /\ InTrace(s.pos)
    /\ s.filename = trace[StmtOf(s.pos)].file
    /\ s.lineno = trace[StmtOf(s.pos)].line

\* The states the engine can be in after n answered forward step operations
RECURSIVE ForwardSteps(_, _)
ForwardSteps(S, n) ==
    IF n = 0 THEN S
    ELSE ForwardSteps(
             {s1 \in UNION {{Finish(ServeRequest(s, command, FALSE, junk)) :
                               command \in StepOperations, junk \in JunkLevels(s)} :
                            s \in S} :
                 s1.pc = "idle" /\ ReportIsTrace(s1)},
             n - 1)

\* hist[j..] is a sequence of answered reverse step operations
ReverseRun(j) ==
    \A k \in j..Len(hist) : hist[k].rev /\ hist[k].outcome = "break"

C28_ReverseHasForwardInverse ==
    \A j \in DOMAIN hist :
        ReverseRun(j)
        => /\ \A k \in j..Len(hist) :
                 /\ hist[k].filename = trace[StmtOf(hist[k].to)].file
                 /\ hist[k].lineno = trace[StmtOf(hist[k].to)].line
           /\ \E s \in ForwardSteps({es}, Len(hist) - j + 1) :
                 StmtOf(s.pos) = StmtOf(hist[j].from)

(***************************************************************************)
(* C29: a feature_set n=V that is accepted stores V; a feature_get n is    *)
(* answered with the value stored for n, which only a feature_set of n     *)
(* changes; a feature_set on a read-only feature is not accepted and       *)
(* leaves the value unchanged.                                             *)
(***************************************************************************)
FeatureRequest(h, command) ==
    /\ Accepted(h)
    /\ h.command = command
    /\ "n" \in DOMAIN h.options
    /\ h.options["n"] \in DOMAIN initFeatureMap

\* The same value, as a feature of this kind reads it
SameFeatureValue(kind, a, b) == IF kind = "int" THEN Atoi(a) = Atoi(b) ELSE a = b

C29_FeatureGetReturnsWhatWasSet ==
    [][/\ (FeatureRequest(hist', "feature_set") /\ hist'.outcome = "response")
            => SameFeatureValue(initFeatureMap[hist'.options["n"]].kind,
                                es'.featureMap[hist'.options["n"]].value,
                                hist'.options["v"])
       /\ FeatureRequest(hist', "feature_get")
            => /\ hist'.outcome = "response"
               /\ hist'.value = es.featureMap[hist'.options["n"]].value
       /\ \A n \in DOMAIN initFeatureMap :
             es'.featureMap[n] # es.featureMap[n]
                => FeatureRequest(hist', "feature_set") /\ hist'.options["n"] = n
       /\ (FeatureRequest(hist', "feature_set")
           /\ es.featureMap[hist'.options["n"]].readOnly)
            => /\ hist'.outcome # "response"
               /\ es'.featureMap = es.featureMap]_vars

(***************************************************************************)
(* C30: the index is built only from a file whose line 1 carries the       *)
(* file-count sentinel with an integer N, whose line 2 carries the         *)
(* max-depth sentinel with an integer D, in which no file URI occurs twice *)
(* and the number of file markers is N; then every file-marker line, a     *)
(* last line without a newline included, maps its URI to the number of     *)
(* that line, and the i-th level marker fills slot i of a table of exactly *)
(* D slots.                                                                *)
(***************************************************************************)
MarkerLines(lines, kind) == {k \in DOMAIN lines : lines[k].kind = kind}
\* The i-th smallest element of a set of line numbers
RECURSIVE Nth(_, _)
Nth(S, i) == IF i = 1 THEN Min(S) ELSE Nth(S \ {Min(S)}, i - 1)

C30_IndexMapsEveryMarker ==
    hist.outcome = "ok"
    => /\ Len(es) >= 2
       /\ es[1].kind = "numFiles" /\ es[1].val \in 0..MaxCount
       /\ es[2].kind = "maxStackDepth" /\ es[2].val \in 0..MaxCount
       /\ \A j, k \in MarkerLines(es, "file") : es[j].uri = es[k].uri => j = k
       /\ Cardinality(MarkerLines(es, "file")) = es[1].val
       /\ \A k \in MarkerLines(es, "file") :
             es[k].uri \in DOMAIN hist.bpLocMap /\ hist.bpLocMap[es[k].uri] = k
       /\ Len(hist.levelLocAr) = es[2].val
       /\ hist.maxStackDepth = es[2].val
       /\ \A i \in 1..Cardinality(MarkerLines(es, "level")) :
             /\ i <= Len(hist.levelLocAr)
             /\ hist.levelLocAr[i] = Nth(MarkerLines(es, "level"), i)

(***************************************************************************)
(* C31: whenever a step_into, step_over, step_out or run request has its   *)
(* break response, the cursor rests at the master-breakpoint position of   *)
(* the statement the response reports, and the stop that ends every        *)
(* gotoMasterBpLocation is a hit of the master breakpoint.                 *)
(***************************************************************************)
AfterGotoMaster == {"step_into_1", "step_4", "run_1", "run_4"}
AtMasterBp(pos) == InTrace(pos) /\ SiteOf(pos) = SiteMaster

C31_ResponseAtMasterPosition ==
    /\ (es.pc \in AfterGotoMaster /\ ~es.wait) => AtMasterBp(es.pos)
    /\ es.pc = "respond"
       => /\ AtMasterBp(es.pos)
          /\ es.filename = trace[StmtOf(es.pos)].file
          /\ es.lineno = trace[StmtOf(es.pos)].line

(***************************************************************************)
(* C32: when a continue stops on an enabled temporary line breakpoint,     *)
(* continueExecution classifies the stop as a user hit and the entry of    *)
(* that breakpoint is gone from the registry when it returns; a stop on    *)
(* the master breakpoint or on a depth breakpoint is classified as not a   *)
(* user hit and removes no registry entry.                                 *)
(***************************************************************************)
\* gdb has stopped the replay of a continue and offers a stop id
StopDelivered == es.cont # "none" /\ es'.cont = "none" /\ es'.chan # 0
\* The enabled temporary line breakpoints this stop has hit (gdb deletes a
\* temporary breakpoint when it is hit)
TemporariesHit ==
    {id \in DOMAIN es.gdb \ DOMAIN es'.gdb : isEnabledPhpTemporaryBreakpoint(es, id)}
DepthBreakpoint(s, id) ==
    /\ id \in DOMAIN s.gdb
    /\ id \notin DOMAIN s.breakpoints
    /\ s.gdb[id].source = "dontbug_break.c"
    /\ s.gdb[id].cond = 0

C32_TemporaryHitIsConsumed ==
    [][StopDelivered
       => LET r == continueExecutionRecv(es')
          IN  /\ TemporariesHit # {}
                 => r.ok /\ TemporariesHit \cap DOMAIN r.breakpoints = {}
              /\ (es'.chan = dontbugMasterBp \/ DepthBreakpoint(es', es'.chan))
                 => ~r.ok /\ r.breakpoints = es.breakpoints]_vars

(***************************************************************************)
(* C33: every depth breakpoint inserted while a step_over, step_out or run *)
(* request is served is deleted from gdb before the response of that       *)
(* request is produced, so that gdb holds no depth breakpoint while the    *)
(* engine waits for a request of the client.                               *)
(***************************************************************************)
DepthBreakpoints(s) == {id \in DOMAIN s.gdb : DepthBreakpoint(s, id)}

C33_NoDepthBreakpointAtRest ==
    /\ es.pc = "idle" => DepthBreakpoints(es) = {}
    /\ hist.pc = "respond" => DepthBreakpoints(hist) = {}

\* A reverse step_over or step_out that has used two depth breakpoints (a user
\* breakpoint was hit first) has answered
C33_Witness ==
    /\ hist.pc = "respond"
    /\ hist.command \in {"step_over", "step_out"}
    /\ hist.rev
    /\ hist.id # 0
    /\ hist.id2 # 0
    /\ DepthBreakpoints(hist) = {}

(***************************************************************************)
(* C34: of the notifications of class stopped with reason breakpoint-hit   *)
(* and a breakpoint number that gdb emits, the first (the bootstrap stop)  *)
(* is never delivered on the stop channel and every later one is delivered *)
(* exactly once, in the order of emission; no other notification is        *)
(* delivered.                                                              *)
(***************************************************************************)
IsBreakpointStop(r) ==
    r.n.class = "stopped" /\ r.n.reason = "breakpoint-hit" /\ r.n.bkptno # 0
BreakpointStops(h) == SelectSeq(h.emitted, IsBreakpointStop)
\* The k-th delivery is the (k+1)-th breakpoint stop emitted
DeliveredInOrder(h) ==
    /\ Len(h.delivered) + 1 <= Max({1, Len(BreakpointStops(h))})
    /\ \A k \in DOMAIN h.delivered :
          /\ h.delivered[k].id = BreakpointStops(h)[k + 1].n.bkptno
          /\ h.delivered[k].call = BreakpointStops(h)[k + 1].call

C34_StopsDeliveredInOrder ==
    /\ [](DeliveredInOrder(hist))
    /\ \A k \in 1..MaxContinues :
          (Len(BreakpointStops(hist)) >= k + 1) ~> (Len(hist.delivered) >= k)

(***************************************************************************)
(* C35: getEnabledPhpBreakpoints returns exactly the ids of the registry   *)
(* entries that are enabled, of type line and not temporary; the entry of  *)
(* the master breakpoint, a depth breakpoint or a temporary entry is never *)
(* in the list.                                                            *)
(***************************************************************************)
EnabledUserEntries(s) ==
    {id \in DOMAIN s.breakpoints :
        /\ s.breakpoints[id].state = "enabled"
        /\ s.breakpoints[id].bpType = "line"
        /\ ~s.breakpoints[id].temporary}

C35_EnabledUserBreakpoints ==
    getEnabledPhpBreakpoints(es) = EnabledUserEntries(es)

(***************************************************************************)
(* C36: after a stop request the engine status is stopped and the response *)
(* reports it; from then on the DBGp loop reads and dispatches no further  *)
(* request of the client and the status never leaves stopped.              *)
(***************************************************************************)
StopAnswered == Accepted(hist) /\ hist.command = "stop"

C36_StopEndsTheLoop ==
    /\ [](StopAnswered
          => /\ hist.outcome = "response"
             /\ hist.value = "stopped"
             /\ es.status = "stopped"
             /\ es.pc = "closed")
    /\ [][es.status = "stopped" => es'.status = "stopped" /\ hist' = hist]_vars

\* A stop request has been answered after a step had put the engine in break
C36_Witness ==
    /\ StopAnswered
    /\ hist.outcome = "response"
    /\ es.status = "stopped"
    /\ es.pos # InitEngine.pos

(***************************************************************************)
(* C37: for every reply made of an address and the double-quoted body in   *)
(* which each double quote of the string s is written as backslash double  *)
(* quote, parseGdbStringResponse returns exactly s (s over letters, double *)
(* quote and backslash, the empty s and an s ending in a backslash         *)
(* included); it returns an error only when the reply holds fewer than two *)
(* double quotes.                                                          *)
(***************************************************************************)
QuotesIn(str) == Cardinality({i \in DOMAIN str : str[i] = DoubleQuote})

C37_StringReplyRoundTrip ==
    hist.outcome # "none"
    => /\ es.made => hist = Parsed("ok", es.s)
       /\ hist.outcome = "error" => QuotesIn(es.reply) < 2

(***************************************************************************)
(* C38: a breakpoint stop is emitted only for an exec-continue sent by a   *)
(* continueExecution call, which receives it: every stop id that           *)
(* continueExecution receives was caused by the exec-continue of that same *)
(* call, and no stop caused by an exec-continue typed at the prompt is     *)
(* left pending on the stop channel.                                       *)
(***************************************************************************)
C38_StopsBelongToTheirContinue ==
    /\ \A k \in DOMAIN hist.emitted :
          IsBreakpointStop(hist.emitted[k]) => hist.emitted[k].to \in {"main", "dbgp"}
    /\ es.offer # 0 => es.offerBy = "dbgp"
    /\ \A k \in DOMAIN hist.delivered :
          hist.delivered[k].by = "dbgp" /\ hist.delivered[k].call = hist.delivered[k].recv

(***************************************************************************)
(* C39: no gdb command is sent after gdb has been exited: when the user    *)
(* quits at the prompt while a DBGp request is being served, the DBGp task *)
(* sends no further MI command and waits for no stop notification once the *)
(* teardown has exited gdb.                                                *)
(***************************************************************************)
C39_NoCommandAfterGdbExit ==
    /\ ~es.lateCmd
    /\ ~(es.loop = "hung" /\ ~es.gdbAlive)

(***************************************************************************)
(* C40: the teardown never deadlocks on closeConnChan (capacity 1):        *)
(* whether the user quits at the prompt first, the client disconnects or   *)
(* sends stop first, or both happen at once, every send on the channel     *)
(* completes, and debuggerIdeLoop receives once, returns and closes the    *)
(* socket of the client.                                                   *)
(***************************************************************************)
\* The process has ended, and every task with it
ProcessEnded == es.main = "exited"
\* A task is blocked in its send and debuggerIdeLoop will not receive again
SenderStuck ==
    /\ es.chan = 1
    /\ es.main = "d_signal" \/ es.loop = "signal"
    /\ es.ide \notin {"dial", "init", "wait", "exited"}

====
